---------------------------- MODULE Spec2Model ----------------------------
(***************************************************************************)
(* A model of linux_health_check.py: the layered configuration resolver    *)
(* (_cfg), the issue store (issues / add_issue), the classification rules  *)
(* of the checks, and the run of main() up to its exit code.               *)
(*                                                                         *)
(* Text is modelled as sequences of one-character strings so that the      *)
(* code's string tests (regular-expression prefixes, substring tests,      *)
(* lower-casing, numeric parsing) are computed, not assumed.               *)
(***************************************************************************)
EXTENDS Integers, Sequences, FiniteSets, TLC

VARIABLES
    pc,         \* position of main(): which statement runs next
    issues,     \* the global list `issues`
    exitCode,   \* the argument of sys.exit, -1 while the process runs
    checkIdx,   \* index in RunOrder of the next check main() calls
    environ,    \* os.environ: variable name -> text, or Absent
    config,     \* health_check.cfg and what was loaded from it:
                \* [file, loaded (_has_config), options: <<section, key>> -> text]
    resolved,   \* the module-level settings: Python global -> value
    euid,       \* os.geteuid()
    probe,      \* the external data handed to the last check that ran
    appended,   \* the issues that last check appended (a suffix of issues)
    report      \* the report files on disk and main()'s `report_file`

vars == <<pc, issues, exitCode, checkIdx, environ, config, resolved, euid, probe, appended, report>>

cfgVars == <<environ, config, resolved, euid>>
chkVars == <<probe, appended>>

-----------------------------------------------------------------------------
(* Bounds of the model. *)

\* longest issue store explored in a run of main()
MaxIssues == 2

-----------------------------------------------------------------------------
(* Shared types. *)

Severities == {"CRITICAL", "HIGH", "MEDIUM", "LOW", "INFO"}

NoProbe == [check |-> "none"]

\* add_issue: the issue record appended to the global list (description,
\* details and timestamp carry no decision and are left out).
Issue(severity, category) == [severity |-> severity, category |-> category]

\* the slip of list.insert(0, issue) for list.append(issue)
add_issue_Prepend(store, severity, category) == <<Issue(severity, category)>> \o store

add_issue(store, severity, category) == Append(store, Issue(severity, category))

-----------------------------------------------------------------------------
(* Text: a Python str is a sequence of one-character strings.              *)

UpperAlpha == <<"A","B","C","D","E","F","G","H","I","J","K","L","M","N","O","P","Q","R","S","T","U","V","W","X","Y","Z">>
LowerAlpha == <<"a","b","c","d","e","f","g","h","i","j","k","l","m","n","o","p","q","r","s","t","u","v","w","x","y","z">>
Digits == <<"0","1","2","3","4","5","6","7","8","9">>

IndexIn(c, alphabet) ==
    IF \E i \in 1..Len(alphabet) : alphabet[i] = c
    THEN CHOOSE i \in 1..Len(alphabet) : alphabet[i] = c
    ELSE 0

\* str.lower() and str.upper(), character by character
LowerOf == [c \in {UpperAlpha[i] : i \in 1..Len(UpperAlpha)} |-> LowerAlpha[IndexIn(c, UpperAlpha)]]
UpperOf == [c \in {LowerAlpha[i] : i \in 1..Len(LowerAlpha)} |-> UpperAlpha[IndexIn(c, LowerAlpha)]]
LowerChar(c) == IF c \in DOMAIN LowerOf THEN LowerOf[c] ELSE c
UpperChar(c) == IF c \in DOMAIN UpperOf THEN UpperOf[c] ELSE c
Lower(text) == [i \in 1..Len(text) |-> LowerChar(text[i])]
Upper(text) == [i \in 1..Len(text) |-> UpperChar(text[i])]

DigitOf == [c \in {Digits[i] : i \in 1..Len(Digits)} |-> IndexIn(c, Digits) - 1]
IsDigit(c) == c \in DOMAIN DigitOf
DigitVal(c) == DigitOf[c]
IsSpace(c) == c \in {" ", "\t"}

\* str.lstrip() / str.rstrip() / str.strip() with no argument
RECURSIVE LStrip(_)
LStrip(text) ==
    IF text # <<>> /\ IsSpace(Head(text)) THEN LStrip(Tail(text)) ELSE text
RECURSIVE RStrip(_)
RStrip(text) ==
    IF text # <<>> /\ IsSpace(text[Len(text)])
    THEN RStrip(SubSeq(text, 1, Len(text) - 1)) ELSE text
Strip(text) == RStrip(LStrip(text))

\* str.startswith(prefix)
StartsWith(text, prefix) ==
    /\ Len(prefix) <= Len(text)
    /\ SubSeq(text, 1, Len(prefix)) = prefix

\* `needle in text` for two str
Contains(text, needle) ==
    \E i \in 0..(Len(text) - Len(needle)) :
        SubSeq(text, i + 1, i + Len(needle)) = needle

\* int(text): surrounding whitespace, one optional sign, then decimal digits
\* in which single underscores may separate digits; anything else raises
\* ValueError.
IsIntBody(b) ==
    /\ b # <<>>
    /\ IsDigit(b[1])
    /\ IsDigit(b[Len(b)])
    /\ \A i \in 1..Len(b) : IsDigit(b[i]) \/ b[i] = "_"
    /\ \A i \in 1..(Len(b) - 1) : ~(b[i] = "_" /\ b[i + 1] = "_")

Unsigned(t) == IF t # <<>> /\ Head(t) \in {"+", "-"} THEN Tail(t) ELSE t

IntParses(text) == IsIntBody(Unsigned(Strip(text)))

RECURSIVE DigitsValue(_, _)
DigitsValue(b, acc) ==
    IF b = <<>> THEN acc
    ELSE IF Head(b) = "_" THEN DigitsValue(Tail(b), acc)
    ELSE DigitsValue(Tail(b), acc * 10 + DigitVal(Head(b)))

IntValue(text) ==
    LET t == Strip(text)
        v == DigitsValue(Unsigned(t), 0)
    IN  IF t # <<>> /\ Head(t) = "-" THEN 0 - v ELSE v

\* str(n) for a natural number
RECURSIVE Str(_)
Str(n) == IF n < 10 THEN <<Digits[n + 1]>> ELSE Str(n \div 10) \o <<Digits[(n % 10) + 1]>>

-----------------------------------------------------------------------------
(* The configuration resolver: _cfg and the module-level settings.         *)

\* os.getenv / has_option answer for a name that is not there (no text
\* equals it: a text holds one-character strings only)
Absent == <<"<absent>">>

\* float(text) for plain decimal literals: surrounding whitespace, one
\* optional sign, digits with at most one "." and at least one digit.
\* (Exponents, "inf" and "nan" also parse in Python; no explored text uses
\* them.)  The value keeps the sign, the integral digits' value and the
\* fractional digits without trailing zeros, which is exact.
IsFloatBody(b) ==
    /\ \A i \in 1..Len(b) : IsDigit(b[i]) \/ b[i] = "."
    /\ \E i \in 1..Len(b) : IsDigit(b[i])
    /\ Cardinality({i \in 1..Len(b) : b[i] = "."}) <= 1

FloatParses(text) == IsFloatBody(Unsigned(Strip(text)))

RECURSIVE DropTrailingZeros(_)
DropTrailingZeros(d) ==
    IF d # <<>> /\ d[Len(d)] = "0"
    THEN DropTrailingZeros(SubSeq(d, 1, Len(d) - 1)) ELSE d

FloatValue(text) ==
    LET t == Strip(text)
        b == Unsigned(t)
        dot == IF \E i \in 1..Len(b) : b[i] = "."
               THEN CHOOSE i \in 1..Len(b) : b[i] = "." ELSE Len(b) + 1
        whole == DigitsValue(SubSeq(b, 1, dot - 1), 0)
        frac == DropTrailingZeros(SubSeq(b, dot + 1, Len(b)))
    IN  [negative |-> t # <<>> /\ Head(t) = "-" /\ (whole # 0 \/ frac # <<>>),
         whole |-> whole, frac |-> frac]

\* the words `env_val.lower() in ("true", "1", "yes", "on")` accepts
EnvTrueWords == {<<"t","r","u","e">>, <<"1">>, <<"y","e","s">>, <<"o","n">>}

\* configparser.RawConfigParser.BOOLEAN_STATES, used by getboolean()
BooleanStatesTrue == {<<"1">>, <<"y","e","s">>, <<"t","r","u","e">>, <<"o","n">>}
BooleanStatesFalse == {<<"0">>, <<"n","o">>, <<"f","a","l","s","e">>, <<"o","f","f">>}

\* the result of one layer: a value, or nothing (the layer is skipped)
Hit(v) == [hit |-> TRUE, value |-> v]
Miss == [hit |-> FALSE]

\* configparser's BasicInterpolation on a stored value: "%%" is a literal
\* "%", a "%" followed by anything else raises InterpolationSyntaxError or,
\* for a "%(name)s" reference to an option that is not there (no explored
\* file defines a referenced option), InterpolationMissingOptionError.
RECURSIVE Interpolate(_)
Interpolate(text) ==
    IF text = <<>> THEN Hit(<<>>)
    ELSE IF Head(text) # "%"
         THEN LET rest == Interpolate(Tail(text))
              IN  IF rest.hit THEN Hit(<<Head(text)>> \o rest.value) ELSE Miss
    ELSE IF Len(text) >= 2 /\ text[2] = "%"
         THEN LET rest == Interpolate(SubSeq(text, 3, Len(text)))
              IN  IF rest.hit THEN Hit(<<"%">> \o rest.value) ELSE Miss
    ELSE Miss

\* os.getenv(name)
getenv(env, name) == IF name \in DOMAIN env THEN env[name] ELSE Absent

\* _config.has_option(section, key)
has_option(cfg, section, key) ==
    /\ <<section, key>> \in DOMAIN cfg.options
    /\ cfg.options[<<section, key>>] # Absent

\* lines 95-106: the environment layer
EnvLayer(env_val, value_type) ==
    IF env_val = Absent THEN Miss
    ELSE IF value_type = "bool" THEN Hit(Lower(env_val) \in EnvTrueWords)
    ELSE IF value_type = "int"
         THEN IF IntParses(env_val) THEN Hit(IntValue(env_val)) ELSE Miss
    ELSE IF value_type = "float"
         THEN IF FloatParses(env_val) THEN Hit(FloatValue(env_val)) ELSE Miss
    ELSE Hit(env_val)

\* lines 109-120: the config-file layer (get, getint, getfloat, getboolean;
\* every one of them interpolates the stored value first)
FileLayer(cfg, section, key, value_type) ==
    IF ~(cfg.loaded /\ has_option(cfg, section, key)) THEN Miss
    ELSE LET got == Interpolate(cfg.options[<<section, key>>])
         IN  IF ~got.hit THEN Miss
             ELSE IF value_type = "bool"
                  THEN IF Lower(got.value) \in BooleanStatesTrue THEN Hit(TRUE)
                       ELSE IF Lower(got.value) \in BooleanStatesFalse THEN Hit(FALSE)
                       ELSE Miss
             ELSE IF value_type = "int"
                  THEN IF IntParses(got.value) THEN Hit(IntValue(got.value)) ELSE Miss
             ELSE IF value_type = "float"
                  THEN IF FloatParses(got.value) THEN Hit(FloatValue(got.value)) ELSE Miss
             ELSE got

\* a slip the layering claim must notice: the config file consulted before
\* the environment
_cfg_FileFirst(env, cfg, section, key, default, value_type) ==
    LET fromEnv == EnvLayer(getenv(env, Upper(key)), value_type)
        fromFile == FileLayer(cfg, section, key, value_type)
    IN  IF fromFile.hit THEN fromFile.value
        ELSE IF fromEnv.hit THEN fromEnv.value
        ELSE default

\* _cfg(section, key, default, value_type)
_cfg(env, cfg, section, key, default, value_type) ==
    LET env_key == Upper(key)
        env_val == getenv(env, env_key)
        fromEnv == EnvLayer(env_val, value_type)
        fromFile == FileLayer(cfg, section, key, value_type)
    IN  IF fromEnv.hit THEN fromEnv.value
        ELSE IF fromFile.hit THEN fromFile.value
        ELSE default

\* `"/root" if os.geteuid() == 0 else "/tmp"`
DefaultOutputDir(uid) == IF uid = 0 THEN <<"/","r","o","o","t">> ELSE <<"/","t","m","p">>

Setting(name, section, key, type, default) ==
    [name |-> name, section |-> section, key |-> key, type |-> type,
     default |-> default]

\* the module-level assignments OUTPUT_DIR = str(_cfg(...)) ... : the Python
\* global, and the section, key, type and default it passes to _cfg (the
\* default of OUTPUT_DIR is written for euid 0 here and set by Settings).
\* The two load multipliers are float(int(_cfg(...))) / 100.0; the model keeps
\* them in hundredths, as _cfg returns them.
SettingsTable == <<
    Setting("OUTPUT_DIR", "output", <<"o","u","t","p","u","t","_","d","i","r">>, "str", DefaultOutputDir(0)),
    Setting("EMAIL_ENABLED", "email", <<"e","n","a","b","l","e","d">>, "bool", FALSE),
    Setting("EMAIL_TO", "email", <<"t","o">>, "str", <<"r","o","o","t","@","l","o","c","a","l","h","o","s","t">>),
    Setting("EMAIL_FROM", "email", <<"f","r","o","m">>, "str", <<"r","o","o","t","@","l","o","c","a","l","h","o","s","t">>),
    Setting("EMAIL_SUBJECT", "email", <<"s","u","b","j","e","c","t">>, "str", <<"L","i","n","u","x"," ","H","e","a","l","t","h"," ","C","h","e","c","k"," ","R","e","p","o","r","t"," ","-"," ","{","h","o","s","t","n","a","m","e","}">>),
    Setting("SMTP_SERVER", "smtp", <<"s","e","r","v","e","r">>, "str", <<"l","o","c","a","l","h","o","s","t">>),
    Setting("SMTP_PORT", "smtp", <<"p","o","r","t">>, "int", 25),
    Setting("SMTP_USE_TLS", "smtp", <<"u","s","e","_","t","l","s">>, "bool", FALSE),
    Setting("SMTP_USERNAME", "smtp", <<"u","s","e","r","n","a","m","e">>, "str", <<>>),
    Setting("SMTP_PASSWORD", "smtp", <<"p","a","s","s","w","o","r","d">>, "str", <<>>),
    Setting("GPG_ENABLED", "gpg", <<"e","n","c","r","y","p","t">>, "bool", FALSE),
    Setting("GPG_RECIPIENT", "gpg", <<"r","e","c","i","p","i","e","n","t">>, "str", <<"r","o","o","t","@","l","o","c","a","l","h","o","s","t">>),
    Setting("GPG_DELETE_UNENCRYPTED", "gpg", <<"d","e","l","e","t","e","_","u","n","e","n","c","r","y","p","t","e","d">>, "bool", FALSE),
    Setting("FILESYSTEM_WARNING_THRESHOLD", "thresholds", <<"f","i","l","e","s","y","s","t","e","m","_","w","a","r","n","i","n","g">>, "int", 80),
    Setting("FILESYSTEM_CRITICAL_THRESHOLD", "thresholds", <<"f","i","l","e","s","y","s","t","e","m","_","c","r","i","t","i","c","a","l">>, "int", 90),
    Setting("MEMORY_WARNING_THRESHOLD", "thresholds", <<"m","e","m","o","r","y","_","w","a","r","n","i","n","g">>, "int", 80),
    Setting("MEMORY_CRITICAL_THRESHOLD", "thresholds", <<"m","e","m","o","r","y","_","c","r","i","t","i","c","a","l">>, "int", 90),
    Setting("LOAD_WARNING_MULTIPLIER", "thresholds", <<"l","o","a","d","_","w","a","r","n","i","n","g">>, "int", 200),
    Setting("LOAD_CRITICAL_MULTIPLIER", "thresholds", <<"l","o","a","d","_","c","r","i","t","i","c","a","l">>, "int", 300),
    Setting("GITHUB_REPO", "version_check", <<"g","i","t","h","u","b","_","r","e","p","o">>, "str", <<"0","x","g","r","u","b","e","r","/","l","i","n","u","x","-","h","e","a","l","t","h","-","c","h","e","c","k","s">>),
    Setting("VERSION_CHECK_ENABLED", "version_check", <<"e","n","a","b","l","e","d">>, "bool", TRUE),
    Setting("VERSION_CHECK_TIMEOUT", "version_check", <<"t","i","m","e","o","u","t">>, "int", 5) >>

\* the table as the process with effective uid `uid` evaluates it
Settings(uid) == [SettingsTable EXCEPT ![1].default = DefaultOutputDir(uid)]

SettingNames == {SettingsTable[i].name : i \in 1..Len(SettingsTable)}

SettingIndex(name) == CHOOSE i \in 1..Len(SettingsTable) : SettingsTable[i].name = name

SettingOf(name, uid) == Settings(uid)[SettingIndex(name)]

\* one module-level assignment
ResolveSetting(name, env, cfg, uid) ==
    LET s == SettingOf(name, uid)
    IN  _cfg(env, cfg, s.section, s.key, s.default, s.type)

-----------------------------------------------------------------------------
(* The classification rules of the checks.  A check is an operator from    *)
(* what its probes returned to its outcome: the issues it appends, in      *)
(* order, whether an exception left the function, and the files it passed *)
(* to open().                                                              *)

Outcome(appends, raised, opened) ==
    [appends |-> appends, raised |-> raised, opened |-> opened]

\* str.rstrip("%")
RECURSIVE RStripPercent(_)
RStripPercent(text) ==
    IF text # <<>> /\ text[Len(text)] = "%"
    THEN RStripPercent(SubSeq(text, 1, Len(text) - 1)) ELSE text

\* `filesystem in ["tmpfs", "devtmpfs", "none", "udev"]`
PseudoFilesystems == {<<"t","m","p","f","s">>, <<"d","e","v","t","m","p","f","s">>, <<"n","o","n","e">>, <<"u","d","e","v">>}

\* the fixed third tier of check_filesystem_usage (`elif use_percent >= 75`)
FilesystemNoticeThreshold == 75

\* a slip the filesystem claim must notice: the critical boundary excluded
FilesystemSeverityStrict(use_percent, warning, critical) ==
    IF use_percent > critical THEN <<"CRITICAL">>
    ELSE IF use_percent >= warning THEN <<"HIGH">>
    ELSE IF use_percent >= FilesystemNoticeThreshold THEN <<"MEDIUM">>
    ELSE << >>

\* lines 1242-1262: the severity of one usage value, if any
FilesystemSeverity(use_percent, warning, critical) ==
    IF use_percent >= critical THEN <<"CRITICAL">>
    ELSE IF use_percent >= warning THEN <<"HIGH">>
    ELSE IF use_percent >= FilesystemNoticeThreshold THEN <<"MEDIUM">>
    ELSE << >>

\* lines 1226-1264: one line of `df -h`, given as line.split()
FilesystemRow(parts, warning, critical) ==
    IF Len(parts) < 6 THEN << >>
    ELSE LET filesystem == parts[1]
             use_percent_str == RStripPercent(parts[5])
         IN  IF filesystem \in PseudoFilesystems THEN << >>
             ELSE IF ~IntParses(use_percent_str) THEN << >>
             ELSE LET sev == FilesystemSeverity(IntValue(use_percent_str), warning, critical)
                  IN  [i \in 1..Len(sev) |-> Issue(sev[i], "Storage")]

RECURSIVE FilesystemRows(_, _, _)
FilesystemRows(lines, warning, critical) ==
    IF lines = << >> THEN << >>
    ELSE FilesystemRow(Head(lines), warning, critical)
            \o FilesystemRows(Tail(lines), warning, critical)

\* check_filesystem_usage(): rc and the lines of stdout (the first is the
\* header), with the two filesystem thresholds
check_filesystem_usage(rc, lines, warning, critical) ==
    IF rc = 0
    THEN Outcome(FilesystemRows(IF lines = << >> THEN << >> ELSE Tail(lines),
                                warning, critical), FALSE, {})
    ELSE Outcome(<<Issue("LOW", "Storage")>>, FALSE, {})

\* `(used / total) * 100 > threshold`, total # 0
PercentAbove(used, total, threshold) ==
    IF total > 0 THEN used * 100 > threshold * total
    ELSE used * 100 < threshold * total

\* check_memory_usage(): rc and the lines of `free -m`, each given as
\* line.split().  percent = (used / total) * 100 is a binary floating-point
\* number; the explored totals are powers of two, for which the quotient and
\* the product are exact, so `percent > T` is `used * 100 > T * total`.
\* int() of a field that is no integer and a total of 0 raise (ValueError,
\* ZeroDivisionError); nothing in the function catches them.
check_memory_usage(rc, lines, warning, critical) ==
    IF rc = 0 /\ Len(lines) >= 2 /\ Len(lines[2]) >= 3
    THEN LET mem_line == lines[2]
         IN  IF ~IntParses(mem_line[2]) \/ ~IntParses(mem_line[3])
             THEN Outcome(<< >>, TRUE, {})
             ELSE LET total == IntValue(mem_line[2])
                      used == IntValue(mem_line[3])
                  IN  IF total = 0 THEN Outcome(<< >>, TRUE, {})
                      ELSE IF PercentAbove(used, total, critical)
                           THEN Outcome(<<Issue("CRITICAL", "System Health")>>, FALSE, {})
                      ELSE IF PercentAbove(used, total, warning)
                           THEN Outcome(<<Issue("HIGH", "System Health")>>, FALSE, {})
                      ELSE Outcome(<<Issue("INFO", "System Health")>>, FALSE, {})
    ELSE Outcome(<<Issue("LOW", "System Health")>>, FALSE, {})

\* float(text) in hundredths, for a decimal literal of at most two
\* fractional digits (every explored load average)
Hundredths(text) ==
    LET v == FloatValue(text)
        f == v.frac
        h == v.whole * 100
             + (IF Len(f) >= 1 THEN 10 * DigitVal(f[1]) ELSE 0)
             + (IF Len(f) >= 2 THEN DigitVal(f[2]) ELSE 0)
    IN  IF v.negative THEN 0 - h ELSE h

\* check_load_average(): whether /proc/loadavg could be read, its content
\* given as read().strip().split(), and os.cpu_count() (0 stands for None).
\* The multipliers are held in hundredths (see SettingsTable).  With a CPU
\* count that is a power of two, as explored, load_1min / cpu_count is an
\* exact scaling, so `load_per_cpu > M` is `load_1min * 100 > M * cpu_count`
\* with load_1min in hundredths and M in hundredths.  Every exception is
\* caught and reported LOW.
check_load_average(readable, loadavg, os_cpu_count, warning, critical) ==
    IF ~readable \/ Len(loadavg) < 3
       \/ \E i \in 1..3 : ~FloatParses(loadavg[i])
    THEN Outcome(<<Issue("LOW", "System Health")>>, FALSE, {"/proc/loadavg"})
    ELSE LET load_1min == Hundredths(loadavg[1])
             cpu_count == IF os_cpu_count = 0 THEN 1 ELSE os_cpu_count
         IN  IF load_1min > critical * cpu_count
             THEN Outcome(<<Issue("CRITICAL", "System Health")>>, FALSE, {"/proc/loadavg"})
             ELSE IF load_1min > warning * cpu_count
             THEN Outcome(<<Issue("HIGH", "System Health")>>, FALSE, {"/proc/loadavg"})
             ELSE Outcome(<<Issue("INFO", "System Health")>>, FALSE, {"/proc/loadavg"})

\* grep_output(text, pattern) for the patterns r"^\s*Keyword": the lines of
\* the text, in order, in which the keyword follows leading whitespace
MatchesKeyword(line, keyword) == StartsWith(LStrip(line), keyword)

\* r"^\s*HostKey\s+": the keyword and at least one whitespace character
MatchesHostKey(line) ==
    LET rest == LStrip(line)
    IN  /\ StartsWith(rest, <<"H","o","s","t","K","e","y">>)
        /\ Len(rest) > 7
        /\ IsSpace(rest[8])

\* r"^\s*PubkeyAccepted(KeyTypes|Algorithms)"
MatchesPubkeyAccepted(line) ==
    \/ MatchesKeyword(line, <<"P","u","b","k","e","y","A","c","c","e","p","t","e","d","K","e","y","T","y","p","e","s">>)
    \/ MatchesKeyword(line, <<"P","u","b","k","e","y","A","c","c","e","p","t","e","d","A","l","g","o","r","i","t","h","m","s">>)

\* re.search(pattern, line) for the patterns the two checks use
re_search(pattern, line) ==
    CASE pattern = "^\\s*PasswordAuthentication" -> MatchesKeyword(line, <<"P","a","s","s","w","o","r","d","A","u","t","h","e","n","t","i","c","a","t","i","o","n">>)
      [] pattern = "^\\s*PubkeyAuthentication" -> MatchesKeyword(line, <<"P","u","b","k","e","y","A","u","t","h","e","n","t","i","c","a","t","i","o","n">>)
      [] pattern = "^\\s*HostKey\\s+" -> MatchesHostKey(line)
      [] pattern = "^\\s*PubkeyAccepted(KeyTypes|Algorithms)" -> MatchesPubkeyAccepted(line)
      [] pattern = "LISTEN" -> Contains(line, <<"L","I","S","T","E","N">>)
      [] pattern = "^\\s*PermitRootLogin" -> MatchesKeyword(line, <<"P","e","r","m","i","t","R","o","o","t","L","o","g","i","n">>)

\* grep_output(text, pattern), the text given as its lines
grep_output(text, pattern) == SelectSeq(text, LAMBDA line : re_search(pattern, line))

\* `not line.strip().startswith("#")`
Uncommented(line) == ~StartsWith(Strip(line), <<"#">>)

\* `for line in reversed(lines): if not line.strip().startswith("#"): ...; break`
\* the line on which the loop body runs, Absent when it never runs
RECURSIVE LastUncommented(_)
LastUncommented(lines) ==
    IF lines = << >> THEN Absent
    ELSE IF Uncommented(lines[Len(lines)]) THEN lines[Len(lines)]
    ELSE LastUncommented(SubSeq(lines, 1, Len(lines) - 1))

\* password_auth_enabled / pubkey_auth_enabled: True unless the chosen line
\* has "no" anywhere in its lower-cased text
AuthEnabled(config_content, pattern) ==
    LET line == LastUncommented(grep_output(config_content, pattern))
    IN  IF line = Absent THEN TRUE ELSE ~Contains(Lower(line), <<"n","o">>)

\* `"rsa" in line.lower() or "dsa" in line.lower()`
NamesWeakKey(line) ==
    Contains(Lower(line), <<"r","s","a">>) \/ Contains(Lower(line), <<"d","s","a">>)
\* `"ed25519" in line.lower() or "ecdsa" in line.lower()`
NamesStrongKey(line) ==
    Contains(Lower(line), <<"e","d","2","5","5","1","9">>) \/ Contains(Lower(line), <<"e","c","d","s","a">>)

SshdConfigPath == "/etc/ssh/sshd_config"
AuthorizedKeys == "authorized_keys"

\* check_ssh_status(): what `systemctl is-active sshd` returned, the state
\* of /etc/ssh/sshd_config ("missing", "denied" when open() raises
\* PermissionError, "readable"), its lines, and what the authorized_keys
\* files that could be read hold.
check_ssh_status(rc, stdout, sshd_config, config_content, rsa_keys_in_use, ed25519_keys_in_use) ==
    IF rc # 0 \/ ~Contains(Lower(stdout), <<"a","c","t","i","v","e">>)
    THEN Outcome(<<Issue("INFO", "Security")>>, FALSE, {})
    ELSE IF sshd_config = "missing"
    THEN Outcome(<<Issue("MEDIUM", "Security")>>, FALSE, {})
    ELSE IF sshd_config = "denied"
    THEN Outcome(<<Issue("MEDIUM", "Security")>>, FALSE, {SshdConfigPath})
    ELSE
    LET password_auth_enabled == AuthEnabled(config_content, "^\\s*PasswordAuthentication")
        pubkey_auth_enabled == AuthEnabled(config_content, "^\\s*PubkeyAuthentication")
        hostkey_lines == grep_output(config_content, "^\\s*HostKey\\s+")
        weak_keys_found ==
            SelectSeq(hostkey_lines, LAMBDA l : Uncommented(l) /\ NamesWeakKey(l))
        strong_keys_found ==
            SelectSeq(hostkey_lines,
                      LAMBDA l : Uncommented(l) /\ ~NamesWeakKey(l) /\ NamesStrongKey(l))
        accepted_key_lines == grep_output(config_content, "^\\s*PubkeyAccepted(KeyTypes|Algorithms)")
        weak_algo_allowed ==
            \E i \in 1..Len(accepted_key_lines) :
                Uncommented(accepted_key_lines[i]) /\ NamesWeakKey(accepted_key_lines[i])
        keyfiles == IF rsa_keys_in_use \/ ed25519_keys_in_use
                    THEN {AuthorizedKeys} ELSE {}
    IN  IF password_auth_enabled
        THEN Outcome(<<Issue("HIGH", "Security")>>, FALSE, {SshdConfigPath})
        ELSE IF ~pubkey_auth_enabled
        THEN Outcome(<<Issue("HIGH", "Security")>>, FALSE, {SshdConfigPath})
        ELSE IF rsa_keys_in_use \/ weak_keys_found # << >> \/ weak_algo_allowed
        THEN Outcome(<<Issue("MEDIUM", "Security")>>, FALSE,
                     {SshdConfigPath} \cup keyfiles)
        ELSE Outcome(<<Issue("LOW", "Security")>>, FALSE,
                     {SshdConfigPath} \cup keyfiles)

\* the branch of check_root_login() on the chosen line: `"no" in line.lower()`
RootLoginSeverity(line) ==
    IF Contains(Lower(line), <<"n","o">>) THEN "INFO" ELSE "HIGH"

\* check_root_login(): the state of /etc/ssh/sshd_config and its lines
check_root_login(sshd_config, content) ==
    IF sshd_config = "missing"
    THEN Outcome(<<Issue("LOW", "Security")>>, FALSE, {})
    ELSE IF sshd_config = "denied"
    THEN Outcome(<<Issue("LOW", "Security")>>, FALSE, {SshdConfigPath})
    ELSE
    LET permit_root_lines ==
            grep_output(content, "^\\s*PermitRootLogin")
        line == LastUncommented(permit_root_lines)
    IN  IF permit_root_lines = << >>
        THEN Outcome(<<Issue("MEDIUM", "Security")>>, FALSE, {SshdConfigPath})
        ELSE IF line = Absent
        THEN Outcome(<< >>, FALSE, {SshdConfigPath})
        ELSE Outcome(<<Issue(RootLoginSeverity(line), "Security")>>, FALSE,
                     {SshdConfigPath})

\* the table of check_open_ports(), in the order of the dictionary
dangerous_ports == <<<<"2","3">>, <<"2","1">>, <<"6","9">>, <<"5","1","3">>, <<"5","1","4">>>>

\* the slip of matching the port without the blank that ends it
PortInLinesNoBlank(port, listening_lines) ==
    \E i \in 1..Len(listening_lines) :
        Contains(listening_lines[i], <<":">> \o port)

\* `any(f":{port} " in line for line in listening_lines)`
PortInLines(port, listening_lines) ==
    \E i \in 1..Len(listening_lines) :
        Contains(listening_lines[i], <<":">> \o port \o <<" ">>)

\* an issue whose description names a port
PortIssue(severity, category, port) ==
    [severity |-> severity, category |-> category, port |-> port]

\* the loop over dangerous_ports.items()
RECURSIVE DangerousPortIssues(_, _)
DangerousPortIssues(ports, listening_lines) ==
    IF ports = << >> THEN << >>
    ELSE (IF PortInLines(Head(ports), listening_lines)
          THEN <<PortIssue("CRITICAL", "Security", Head(ports))>> ELSE << >>)
         \o DangerousPortIssues(Tail(ports), listening_lines)

\* the threshold of the count issue (`if port_count > 20`)
ListeningPortsThreshold == 20

\* check_open_ports(): what `ss -tuln` returned and, when it failed, what
\* `netstat -tuln` returned; stdout given as its lines
check_open_ports(ss_rc, ss_stdout, netstat_rc, netstat_stdout) ==
    LET rc == IF ss_rc # 0 THEN netstat_rc ELSE ss_rc
        stdout == IF ss_rc # 0 THEN netstat_stdout ELSE ss_stdout
        listening_lines == grep_output(stdout, "LISTEN")
        port_count == Len(listening_lines)
    IN  IF rc = 0
        THEN Outcome(<<Issue(IF port_count > ListeningPortsThreshold
                             THEN "MEDIUM" ELSE "INFO", "Security")>>
                     \o DangerousPortIssues(dangerous_ports, listening_lines),
                     FALSE, {})
        ELSE Outcome(<<Issue("LOW", "Security")>>, FALSE, {})

-----------------------------------------------------------------------------
(* The update check: parse_semantic_version, compare_versions,             *)
(* check_github_releases and check_version_update.                         *)

\* the value None (no text and no tuple of integers equals it)
None == <<"None">>

\* str.lstrip(chars)
RECURSIVE LStripChars(_, _)
LStripChars(text, chars) ==
    IF text # << >> /\ Head(text) \in chars THEN LStripChars(Tail(text), chars) ELSE text

\* str.split(sep) for a one-character separator
RECURSIVE Split(_, _)
Split(text, sep) ==
    IF \E i \in 1..Len(text) : text[i] = sep
    THEN LET i == CHOOSE i \in 1..Len(text) :
                      text[i] = sep /\ \A j \in 1..(i - 1) : text[j] # sep
         IN  <<SubSeq(text, 1, i - 1)>> \o Split(SubSeq(text, i + 1, Len(text)), sep)
    ELSE <<text>>

\* the exception the try body of parse_semantic_version raises on a str,
\* "none" when it returns: int(p) raises ValueError
ParseRaises(version_string) ==
    LET parts == Split(LStripChars(version_string, {"v"}), ".")
    IN  IF Len(parts) = 3 /\ \E i \in 1..3 : ~IntParses(parts[i])
        THEN "ValueError" ELSE "none"

\* the slip of catching AttributeError only
ParseCaughtAttributeOnly == {"AttributeError"}

\* `except (ValueError, AttributeError): return None`
ParseCaught == {"ValueError", "AttributeError"}

\* what the try body returns when it raises nothing
ParseReturns(version_string) ==
    LET parts == Split(LStripChars(version_string, {"v"}), ".")
    IN  IF Len(parts) # 3 THEN None
        ELSE LET major == IntValue(parts[1])
                 minor == IntValue(parts[2])
                 patch == IntValue(parts[3])
             IN  IF major < 0 \/ minor < 0 \/ patch < 0 THEN None
                 ELSE <<major, minor, patch>>

\* parse_semantic_version(version_string) on a str: the value returned and
\* whether an exception left the function
parse_semantic_version(version_string) ==
    LET e == ParseRaises(version_string)
    IN  IF e = "none" THEN [value |-> ParseReturns(version_string), raised |-> FALSE]
        ELSE IF e \in ParseCaught THEN [value |-> None, raised |-> FALSE]
        ELSE [value |-> None, raised |-> TRUE]

\* Python's `<` on two tuples of three integers
TupleLess(a, b) ==
    \/ a[1] < b[1]
    \/ a[1] = b[1] /\ a[2] < b[2]
    \/ a[1] = b[1] /\ a[2] = b[2] /\ a[3] < b[3]

\* the slip of leaving the patch number out of the comparison
compare_versions_NoPatch(current, latest) ==
    IF current[1] < latest[1] \/ (current[1] = latest[1] /\ current[2] < latest[2]) THEN -1
    ELSE IF current[1] = latest[1] /\ current[2] = latest[2] THEN 0
    ELSE 1

\* compare_versions(current, latest)
compare_versions(current, latest) ==
    IF TupleLess(current, latest) THEN -1
    ELSE IF current = latest THEN 0
    ELSE 1

\* __version__
ScriptVersion == <<"1",".","2",".","1">>

\* the URL check_github_releases() fetches
ApiUrl == "https://api.github.com/repos/{GITHUB_REPO}/releases/latest"

\* check_github_releases(): the value of DISABLE_VERSION_CHECK in the
\* environment (Absent when unset) and what urlopen / json.loads give:
\* an exception, or the decoded document ("tag": an object whose tag_name is
\* a str; "no_tag": an object without the key; "null_tag": tag_name is
\* null; "not_object": not a JSON object).  Every exception, the
\* AttributeError of the last two included, ends in `return None, None, None`.
\* Returns the version string (or None) and the URLs fetched.
check_github_releases(disable_env, fetch) ==
    IF (IF disable_env = Absent THEN <<"0">> ELSE disable_env) = <<"1">>
    THEN [version |-> None, opened |-> {}]
    ELSE IF fetch.kind = "tag"
    THEN [version |-> LStripChars(fetch.tag_name, {"v"}), opened |-> {ApiUrl}]
    ELSE IF fetch.kind = "no_tag"
    THEN [version |-> << >>, opened |-> {ApiUrl}]
    ELSE [version |-> None, opened |-> {ApiUrl}]

\* the slip of announcing the release the script already is
check_version_update_OnEqual(disable_env, fetch, version) ==
    LET released == check_github_releases(disable_env, fetch)
        current == parse_semantic_version(version)
        latest == parse_semantic_version(released.version)
    IN  IF released.version \in {None, << >>} \/ current.value = None \/ latest.value = None
        THEN Outcome(<< >>, FALSE, released.opened)
        ELSE IF compare_versions(current.value, latest.value) <= 0
        THEN Outcome(<<Issue("INFO", "Version Update")>>, FALSE, released.opened)
        ELSE Outcome(<< >>, FALSE, released.opened)

\* the slip of reporting a newer release as a HIGH issue
check_version_update_High(disable_env, fetch, version) ==
    LET released == check_github_releases(disable_env, fetch)
        current == parse_semantic_version(version)
        latest == parse_semantic_version(released.version)
    IN  IF released.version \in {None, << >>} \/ current.value = None \/ latest.value = None
        THEN Outcome(<< >>, FALSE, released.opened)
        ELSE IF compare_versions(current.value, latest.value) < 0
        THEN Outcome(<<Issue("HIGH", "Version Update")>>, FALSE, released.opened)
        ELSE Outcome(<< >>, FALSE, released.opened)

\* check_version_update(), with __version__ as `version`
check_version_update(disable_env, fetch, version) ==
    LET released == check_github_releases(disable_env, fetch)
        latest_version_str == released.version
    IN  IF latest_version_str \in {None, << >>}
        THEN Outcome(<< >>, FALSE, released.opened)
        ELSE
        LET current == parse_semantic_version(version)
            latest == parse_semantic_version(latest_version_str)
        IN  IF current.raised \/ latest.raised
            THEN Outcome(<< >>, TRUE, released.opened)
            ELSE IF current.value = None \/ latest.value = None
            THEN Outcome(<< >>, FALSE, released.opened)
            ELSE IF compare_versions(current.value, latest.value) < 0
            THEN Outcome(<<Issue("INFO", "Version Update")>>, FALSE, released.opened)
            ELSE Outcome(<< >>, FALSE, released.opened)

-----------------------------------------------------------------------------
(* Networking checks. *)

\* check_dns_resolution(): `lookups` are the (rc, stdout) run_command gives
\* for nslookup of each test host, in order; the first host with rc 0 and
\* "answer" in the lower-cased output ends the check with an INFO issue
check_dns_resolution(lookups) ==
    IF \E i \in 1..Len(lookups) :
          lookups[i].rc = 0 /\ Contains(Lower(lookups[i].stdout), <<"a","n","s","w","e","r">>)
    THEN Outcome(<<Issue("INFO", "Networking")>>, FALSE, {})
    ELSE Outcome(<<Issue("HIGH", "Networking")>>, FALSE, {})

\* check_default_gateway(): rc and stdout of `ip route show default`, and
\* the rc of the ping of the gateway found
check_default_gateway(rc, stdout, ping_rc) ==
    IF rc = 0 /\ Strip(stdout) # << >>
    THEN Outcome(<<Issue("INFO", "Networking"),
                   Issue(IF ping_rc = 0 THEN "INFO" ELSE "MEDIUM", "Networking")>>,
                 FALSE, {})
    ELSE Outcome(<<Issue("HIGH", "Networking")>>, FALSE, {})

-----------------------------------------------------------------------------
(* main(): the summary and the exit code. *)

\* the loop `for issue in issues: severity_counts[sev] = severity_counts.get(sev, 0) + 1`
\* a severity that never occurred has no key in the dictionary
RECURSIVE CountLoop(_, _)
CountLoop(store, counts) ==
    IF store = <<>> THEN counts
    ELSE LET sev == Head(store).severity
             old == IF sev \in DOMAIN counts THEN counts[sev] ELSE 0
         IN  CountLoop(Tail(store),
                       [s \in (DOMAIN counts) \cup {sev} |->
                            IF s = sev THEN old + 1 ELSE counts[s]])

EmptyDict == [s \in {} |-> 0]

severity_counts(store) == CountLoop(store, EmptyDict)

\* dict.get(key, 0)
DictGet(d, k) == IF k \in DOMAIN d THEN d[k] ELSE 0

\* a slip the exit-code claim must notice: MEDIUM issues raising the code
ExitCodeMediumCounts(store) ==
    LET c == severity_counts(store)
    IN  IF DictGet(c, "CRITICAL") > 0 THEN 2
        ELSE IF DictGet(c, "HIGH") > 0 \/ DictGet(c, "MEDIUM") > 0 THEN 1
        ELSE 0

\* the if/elif/else around sys.exit at the end of main()
ExitCode(store) ==
    LET c == severity_counts(store)
    IN  IF DictGet(c, "CRITICAL") > 0 THEN 2
        ELSE IF DictGet(c, "HIGH") > 0 THEN 1
        ELSE 0

-----------------------------------------------------------------------------
(* The exporters.  A report is a sequence of lines (Markdown, text) or a   *)
(* document (JSON, XML); numbers are rendered to decimal text and text is  *)
(* escaped as the serializer does, and read back by the parser.            *)

\* the characters in the order of their code points, as far as texts here
\* hold them
CodePoints == <<" ", "\"", "&">> \o Digits \o <<"<", ">">> \o UpperAlpha \o <<"\\">> \o LowerAlpha
CodePoint(c) == IndexIn(c, CodePoints)

\* Python's `<` on two str
RECURSIVE TextLess(_, _)
TextLess(a, b) ==
    IF b = << >> THEN FALSE
    ELSE IF a = << >> THEN TRUE
    ELSE IF Head(a) = Head(b) THEN TextLess(Tail(a), Tail(b))
    ELSE CodePoint(Head(a)) < CodePoint(Head(b))

\* the categories the checks use, spelled out
Spelling ==
    ("Security" :> <<"S","e","c","u","r","i","t","y">>) @@
    ("Storage" :> <<"S","t","o","r","a","g","e">>) @@
    ("System Health" :> <<"S","y","s","t","e","m"," ","H","e","a","l","t","h">>) @@
    ("Networking" :> <<"N","e","t","w","o","r","k","i","n","g">>) @@
    ("Updates" :> <<"U","p","d","a","t","e","s">>) @@
    ("iSCSI" :> <<"i","S","C","S","I">>) @@
    ("Version Update" :> <<"V","e","r","s","i","o","n"," ","U","p","d","a","t","e">>)

\* the slip of sorting the category names in descending order
RECURSIVE sorted_Descending(_)
sorted_Descending(keys) ==
    IF keys = {} THEN << >>
    ELSE LET greatest == CHOOSE k \in keys :
                          \A other \in keys \ {k} : TextLess(Spelling[other], Spelling[k])
         IN  <<greatest>> \o sorted_Descending(keys \ {greatest})

\* sorted(categories.keys())
RECURSIVE sorted(_)
sorted(keys) ==
    IF keys = {} THEN << >>
    ELSE LET least == CHOOSE k \in keys :
                          \A other \in keys \ {k} : TextLess(Spelling[k], Spelling[other])
         IN  <<least>> \o sorted(keys \ {least})

\* the loop that fills `categories`: per category, its issues in store order
categories(store) ==
    [c \in {store[i].category : i \in 1..Len(store)} |->
        SelectSeq(store, LAMBDA issue : issue.category = c)]

\* `for sev in ["CRITICAL", "HIGH", "MEDIUM", "LOW", "INFO"]`
SummaryOrder == <<"CRITICAL", "HIGH", "MEDIUM", "LOW", "INFO">>

\* one line of a Markdown or text report: what it is, the severity it
\* names, and the text put into it
Line(kind, severity, text) == [kind |-> kind, severity |-> severity, text |-> text]

\* the slip of listing only the severities that occur
SummaryLines_PresentOnly(store) ==
    SelectSeq([i \in 1..Len(SummaryOrder) |->
                  Line("summary", SummaryOrder[i],
                       Str(DictGet(severity_counts(store), SummaryOrder[i])))],
              LAMBDA line : line.text # <<"0">>)

\* the summary lines, zero-filled: f"- **{sev}:** {count}" / f"{sev:12} {count}"
SummaryLines(store) ==
    [i \in 1..Len(SummaryOrder) |->
        Line("summary", SummaryOrder[i], Str(DictGet(severity_counts(store), SummaryOrder[i])))]

\* f"**Total Issues:** {len(issues)}"
TotalLine(store) == Line("total", "", Str(Len(store)))

\* the issue lines under one category heading
RECURSIVE IssueLines(_)
IssueLines(group) ==
    IF group = << >> THEN << >>
    ELSE <<Line("issue", Head(group).severity, Head(group).description)>>
         \o (IF Head(group).details # << >>
             THEN <<Line("details", "", Head(group).details)>> ELSE << >>)
         \o IssueLines(Tail(group))

\* the category sections, for the category names in the order given
RECURSIVE CategorySections(_, _)
CategorySections(names, groups) ==
    IF names = << >> THEN << >>
    ELSE <<Line("category", "", Spelling[Head(names)])>>
         \o IssueLines(groups[Head(names)])
         \o CategorySections(Tail(names), groups)

\* export_markdown() and export_text(): title and metadata, the summary,
\* the total, then the issues by category (the two differ in decoration)
export_markdown(store) ==
    <<Line("title", "", << >>)>> \o SummaryLines(store) \o <<TotalLine(store)>>
    \o CategorySections(sorted(DOMAIN categories(store)), categories(store))

export_text(store) ==
    <<Line("rule", "", << >>), Line("title", "", << >>), Line("rule", "", << >>)>> \o SummaryLines(store) \o <<TotalLine(store)>>
    \o CategorySections(sorted(DOMAIN categories(store)), categories(store))

\* the keys of a dictionary filled by a loop over the store, in the order
\* of insertion: the severities in the order of their first occurrence
RECURSIVE FirstOccurrences(_, _)
FirstOccurrences(store, seen) ==
    IF store = << >> THEN << >>
    ELSE IF Head(store).severity \in seen THEN FirstOccurrences(Tail(store), seen)
    ELSE <<Head(store).severity>>
         \o FirstOccurrences(Tail(store), seen \cup {Head(store).severity})

\* the summary entries of the JSON and XML reports: one per severity that
\* occurred, with its count rendered (json.dumps of an int / str(count))
SummaryEntries(store) ==
    LET levels == FirstOccurrences(store, {})
    IN  [i \in 1..Len(levels) |->
            [level |-> levels[i], count |-> Str(severity_counts(store)[levels[i]])]]

\* the character U+0007, standing for the control characters that the
\* output of a command or a file may hold
Bell == "^G"

\* json.dumps of a str: the quote and the backslash are escaped, a control
\* character is written \u00XX
RECURSIVE JsonEscape(_)
JsonEscape(text) ==
    IF text = << >> THEN << >>
    ELSE (CASE Head(text) \in {"\"", "\\"} -> <<"\\", Head(text)>>
            [] Head(text) = Bell -> <<"\\", "u", "0", "0", "0", "7">>
            [] OTHER -> <<Head(text)>>)
         \o JsonEscape(Tail(text))

\* json.load of a string literal
RECURSIVE JsonUnescape(_)
JsonUnescape(text) ==
    IF text = << >> THEN << >>
    ELSE IF StartsWith(text, <<"\\", "u", "0", "0", "0", "7">>)
    THEN <<Bell>> \o JsonUnescape(SubSeq(text, 7, Len(text)))
    ELSE IF Head(text) = "\\" /\ Len(text) >= 2
    THEN <<text[2]>> \o JsonUnescape(SubSeq(text, 3, Len(text)))
    ELSE <<Head(text)>> \o JsonUnescape(Tail(text))

\* export_json(): json.dumps(report)
export_json(store) ==
    [keys |-> <<"hostname", "timestamp", "os_info", "summary", "issues">>,
     summary |-> SummaryEntries(store),
     issues |-> [i \in 1..Len(store) |->
                    [severity |-> store[i].severity, category |-> store[i].category,
                     description |-> JsonEscape(store[i].description),
                     details |-> JsonEscape(store[i].details)]]]

\* json.load(f) of a report, as validate_json_output() reads it
json_load(document) ==
    [keys |-> document.keys,
     summary |-> [i \in 1..Len(document.summary) |->
                    [level |-> document.summary[i].level,
                     count |-> IntValue(document.summary[i].count)]],
     issues |-> [i \in 1..Len(document.issues) |->
                    [severity |-> document.issues[i].severity,
                     category |-> document.issues[i].category,
                     description |-> JsonUnescape(document.issues[i].description),
                     details |-> JsonUnescape(document.issues[i].details)]]]

\* ElementTree's escaping of element text: the three markup characters
\* only, every other character as it is
RECURSIVE XmlEscape(_)
XmlEscape(text) ==
    IF text = << >> THEN << >>
    ELSE (CASE Head(text) = "&" -> <<"&","a","m","p",";">>
            [] Head(text) = "<" -> <<"&","l","t",";">>
            [] Head(text) = ">" -> <<"&","g","t",";">>
            [] OTHER -> <<Head(text)>>)
         \o XmlEscape(Tail(text))

\* the parser's reading of element text
RECURSIVE XmlUnescape(_)
XmlUnescape(text) ==
    IF text = << >> THEN << >>
    ELSE IF StartsWith(text, <<"&","a","m","p",";">>) THEN <<"&">> \o XmlUnescape(SubSeq(text, 6, Len(text)))
    ELSE IF StartsWith(text, <<"&","l","t",";">>) THEN <<"<">> \o XmlUnescape(SubSeq(text, 5, Len(text)))
    ELSE IF StartsWith(text, <<"&","g","t",";">>) THEN <<">">> \o XmlUnescape(SubSeq(text, 5, Len(text)))
    ELSE <<Head(text)>> \o XmlUnescape(Tail(text))

\* export_xml(): ET.tostring(root): the root, its three children, the
\* <severity level=...> elements of the summary and the <issue> elements
export_xml(store) ==
    [root |-> "health_check_report",
     children |-> <<"metadata", "summary", "issues">>,
     summary |-> SummaryEntries(store),
     issues |-> [i \in 1..Len(store) |->
                    [severity |-> store[i].severity, category |-> store[i].category,
                     description |-> XmlEscape(store[i].description),
                     details |-> XmlEscape(store[i].details)]]]

\* the parser rejects a document that holds a character XML 1.0 excludes
WellFormed(document) ==
    \A i \in 1..Len(document.issues) :
        /\ \A k \in 1..Len(document.issues[i].description) :
              document.issues[i].description[k] # Bell
        /\ \A k \in 1..Len(document.issues[i].details) :
              document.issues[i].details[k] # Bell

\* ET.parse(filepath).getroot(), as validate_xml_output() reads it;
\* `raised` for ET.ParseError
xml_parse(document) ==
    IF ~WellFormed(document)
    THEN [raised |-> TRUE, root |-> "", children |-> << >>, summary |-> << >>,
          issues |-> << >>]
    ELSE [raised |-> FALSE,
          root |-> document.root,
          children |-> document.children,
          summary |-> [i \in 1..Len(document.summary) |->
                         [level |-> document.summary[i].level,
                          count |-> IntValue(document.summary[i].count)]],
          issues |-> [i \in 1..Len(document.issues) |->
                         [severity |-> document.issues[i].severity,
                          category |-> document.issues[i].category,
                          description |-> XmlUnescape(document.issues[i].description),
                          details |-> XmlUnescape(document.issues[i].details)]]]

-----------------------------------------------------------------------------
(* Encryption of the report. *)

\* the report on disk: which path `report_file` holds ("plain" for the file
\* main() wrote, "gpg" for file_path + ".gpg"), which of the two files
\* exist, how much of the rendered report the plaintext file holds
\* ("none", "partial", "complete"), how the encrypt step went, how the
\* e-mail step went and which file the message carried
ReportFile(file, plaintext, written, encrypted, encrypt, mail, attached) ==
    [file |-> file, plaintext |-> plaintext, written |-> written,
     encrypted |-> encrypted, encrypt |-> encrypt, mail |-> mail,
     attached |-> attached]

NoReport == ReportFile("none", FALSE, "none", FALSE, "none", "none", "none")

\* the slip of returning file_path after a successful encryption
encrypt_file_gpg_KeepsPath(enabled, recipient, gpg_exists, rc, removed, r) ==
    IF ~enabled \/ recipient = << >>
    THEN [report |-> [r EXCEPT !.encrypt = "skipped"], raised |-> FALSE]
    ELSE IF ~gpg_exists
    THEN [report |-> [r EXCEPT !.encrypt = "no_gpg"], raised |-> FALSE]
    ELSE IF rc = 0
    THEN IF removed
         THEN [report |-> [r EXCEPT !.encrypted = TRUE, !.plaintext = FALSE,
                                    !.encrypt = "encrypted"],
               raised |-> FALSE]
         ELSE [report |-> [r EXCEPT !.encrypted = TRUE, !.encrypt = "remove_failed"],
               raised |-> TRUE]
    ELSE [report |-> [r EXCEPT !.encrypt = "failed"], raised |-> FALSE]

\* encrypt_file_gpg(file_path): the files afterwards and the value
\* returned, or `raised` when os.remove() fails, which nothing here catches
encrypt_file_gpg(enabled, recipient, gpg_exists, rc, removed, r) ==
    IF ~enabled \/ recipient = << >>
    THEN [report |-> [r EXCEPT !.encrypt = "skipped"], raised |-> FALSE]
    ELSE IF ~gpg_exists
    THEN [report |-> [r EXCEPT !.encrypt = "no_gpg"], raised |-> FALSE]
    ELSE IF rc = 0
    THEN IF removed
         THEN [report |-> [r EXCEPT !.encrypted = TRUE, !.plaintext = FALSE,
                                    !.file = "gpg", !.encrypt = "encrypted"],
               raised |-> FALSE]
         ELSE [report |-> [r EXCEPT !.encrypted = TRUE, !.encrypt = "remove_failed"],
               raised |-> TRUE]
    ELSE [report |-> [r EXCEPT !.encrypt = "failed"], raised |-> FALSE]

-----------------------------------------------------------------------------
(* Delivery of the report. *)

\* what can go wrong between composing the message and server.quit()
MailFailures == {"unreadable", "refused", "tls", "login"}

\* the first failure met on the way: open(report_file, "rb"), then
\* smtplib.SMTP(...), then starttls() if SMTP_USE_TLS, then login() if a
\* user name and a password are set
MailOutcome(failure, use_tls, credentials) ==
    IF failure = "tls" /\ ~use_tls THEN "sent"
    ELSE IF failure = "login" /\ ~credentials THEN "sent"
    ELSE IF failure = "none" THEN "sent"
    ELSE failure

\* the slip of letting a failure of the transport leave the function
send_email_report_Propagates(email_enabled, addressed, failure, use_tls, credentials, r) ==
    IF ~email_enabled \/ ~addressed
    THEN [report |-> [r EXCEPT !.mail = "skipped"], raised |-> FALSE]
    ELSE LET outcome == MailOutcome(failure, use_tls, credentials)
         IN  [report |-> [r EXCEPT !.mail = outcome,
                                   !.attached = IF outcome = "sent" THEN r.file ELSE "none"],
              raised |-> outcome \in {"refused", "tls", "login"}]

\* send_email_report(report_file): returns at once unless EMAIL_ENABLED and
\* EMAIL_TO, EMAIL_FROM and SMTP_SERVER are all set; everything else runs
\* inside try / except Exception, which logs the failure
send_email_report(email_enabled, addressed, failure, use_tls, credentials, r) ==
    IF ~email_enabled \/ ~addressed
    THEN [report |-> [r EXCEPT !.mail = "skipped"], raised |-> FALSE]
    ELSE LET outcome == MailOutcome(failure, use_tls, credentials)
         IN  [report |-> [r EXCEPT !.mail = outcome,
                                   !.attached = IF outcome = "sent" THEN r.file ELSE "none"],
              raised |-> FALSE]

-----------------------------------------------------------------------------
(* main(): the run. *)

Chk(name, category, severities) ==
    [name |-> name, category |-> category, severities |-> severities]

\* the slip of calling a Storage check ahead of the Security checks
RunOrder_StorageFirst == <<
    Chk("check_filesystem_usage", "Storage", {"CRITICAL", "HIGH", "LOW", "MEDIUM"}),
    Chk("check_ssh_status", "Security", {"HIGH", "INFO", "LOW", "MEDIUM"}),
    Chk("check_memory_usage", "System Health", {"CRITICAL", "HIGH", "INFO", "LOW"}) >>

\* the calls of main() between "Running Security Checks..." and the report,
\* in call order, each with the category and the severities its add_issue
\* calls use
RunOrder == <<
    Chk("check_ssh_status", "Security", {"HIGH", "INFO", "LOW", "MEDIUM"}),
    Chk("check_wheel_group", "Security", {"CRITICAL", "INFO", "MEDIUM"}),
    Chk("check_firewall", "Security", {"HIGH", "INFO", "MEDIUM"}),
    Chk("check_selinux_apparmor", "Security", {"HIGH", "INFO", "MEDIUM"}),
    Chk("check_failed_logins", "Security", {"HIGH", "INFO", "LOW", "MEDIUM"}),
    Chk("check_open_ports", "Security", {"CRITICAL", "INFO", "LOW", "MEDIUM"}),
    Chk("check_root_login", "Security", {"HIGH", "INFO", "LOW", "MEDIUM"}),
    Chk("check_password_policy", "Security", {"INFO", "LOW", "MEDIUM"}),
    Chk("check_uptime", "System Health", {"INFO"}),
    Chk("check_load_average", "System Health", {"CRITICAL", "HIGH", "INFO", "LOW"}),
    Chk("check_memory_usage", "System Health", {"CRITICAL", "HIGH", "INFO", "LOW"}),
    Chk("check_cpu_info", "System Health", {"INFO", "LOW"}),
    Chk("check_zombie_processes", "System Health", {"HIGH", "INFO", "LOW", "MEDIUM"}),
    Chk("check_systemd_failed", "System Health", {"HIGH", "INFO", "LOW", "MEDIUM"}),
    Chk("check_dmesg_errors", "System Health", {"HIGH", "INFO", "LOW", "MEDIUM"}),
    Chk("check_filesystem_usage", "Storage", {"CRITICAL", "HIGH", "LOW", "MEDIUM"}),
    Chk("check_inode_usage", "Storage", {"CRITICAL", "HIGH", "LOW"}),
    Chk("check_disk_smart", "Storage", {"CRITICAL", "INFO", "LOW"}),
    Chk("check_package_updates", "Updates", {"INFO", "LOW", "MEDIUM"}),
    Chk("check_kernel_version", "Updates", {"HIGH", "INFO", "MEDIUM"}),
    Chk("check_security_updates", "Updates", {"HIGH", "INFO", "MEDIUM"}),
    Chk("check_network_interfaces", "Networking", {"INFO", "LOW"}),
    Chk("check_dns_resolution", "Networking", {"HIGH", "INFO"}),
    Chk("check_default_gateway", "Networking", {"HIGH", "INFO", "MEDIUM"}),
    Chk("check_listening_services", "Networking", {"INFO"}),
    Chk("check_network_errors", "Networking", {"INFO", "MEDIUM"}),
    Chk("check_connectivity", "Networking", {"HIGH", "INFO"}),
    Chk("check_iscsi_service", "iSCSI", {"INFO", "LOW"}),
    Chk("check_iscsi_sessions", "iSCSI", {"INFO", "LOW"}),
    Chk("check_iscsi_multipath", "iSCSI", {"HIGH", "INFO", "LOW"}),
    Chk("check_iscsi_targets", "iSCSI", {"INFO"}),
    Chk("check_iscsi_performance", "iSCSI", {"INFO", "LOW", "MEDIUM"}),
    Chk("check_iscsi_timeouts", "iSCSI", {"INFO"}),
    Chk("check_iscsi_errors", "iSCSI", {"INFO", "MEDIUM"}) >>

\* state of the parts of the model a run of main() does not touch
IdleResolver ==
    /\ environ = << >>
    /\ config = [file |-> "missing", loaded |-> FALSE, options |-> << >>]
    /\ resolved = << >>
    /\ euid = 0

IdleChecks ==
    /\ probe = NoProbe
    /\ appended = << >>
    /\ report = NoReport

Init ==
    /\ pc = "detect_os"
    /\ issues = << >>
    /\ exitCode = -1
    /\ checkIdx = 1
    /\ IdleResolver
    /\ IdleChecks

\* detect_os(): fills OS_INFO, appends no issue
DetectOS ==
    /\ pc = "detect_os"
    /\ pc' = "version_update"
    /\ UNCHANGED <<issues, exitCode, checkIdx, cfgVars, chkVars, report>>

\* what reaches check_version_update() in a run: the disable flag unset and
\* a release that is newer, equal, older or malformed, or no answer at all;
\* or the flag set
MainUpdateInputs ==
    {<<Absent, [kind |-> "tag", tag_name |-> t]>> :
        t \in {<<"v","1",".","3",".","0">>, <<"v","1",".","2",".","1">>, <<"1",".","2",".","0">>, <<"b","o","g","u","s">>}}
    \cup {<<Absent, [kind |-> "URLError"]>>,
          <<<<"1">>, [kind |-> "tag", tag_name |-> <<"v","1",".","3",".","0">>]>>}

\* `check_version_update()` in main(): an exception would leave main()
MainVersionUpdate ==
    /\ pc = "version_update"
    /\ \E given \in MainUpdateInputs :
          LET outcome == check_version_update(given[1], given[2], ScriptVersion)
          IN  /\ probe' = [check |-> "check_version_update",
                           input |-> [disable_env |-> given[1], fetch |-> given[2]],
                           raised |-> outcome.raised, opened |-> outcome.opened]
              /\ appended' = outcome.appends
              /\ issues' = issues \o outcome.appends
              /\ pc' = IF outcome.raised THEN "raised" ELSE "checks"
    /\ UNCHANGED <<exitCode, checkIdx, cfgVars, report>>

\* one call of main()'s list of checks: the check appends nothing, or one of
\* the issues its add_issue calls can produce (the store explored is capped
\* at MaxIssues)
\* the checks with a conversion or a division outside any try block:
\* int(mem_line[1]), int(mem_line[2]) and used / total of check_memory_usage
RaisingChecks == {"check_memory_usage"}

RunCheck ==
    /\ pc = "checks"
    /\ checkIdx <= Len(RunOrder)
    /\ LET c == RunOrder[checkIdx]
       IN  \/ /\ \/ issues' = issues
                 \/ /\ Len(issues) < MaxIssues
                    /\ \E sev \in c.severities :
                          issues' = add_issue(issues, sev, c.category)
              /\ checkIdx' = checkIdx + 1
              /\ pc' = IF checkIdx = Len(RunOrder) THEN "report" ELSE "checks"
           \/ /\ c.name \in RaisingChecks
              /\ issues' = issues
              /\ checkIdx' = checkIdx
              /\ pc' = "raised"
    /\ UNCHANGED <<exitCode, cfgVars, chkVars, report>>

\* "Generating Reports": render and write the report file
GenerateReport ==
    /\ pc = "report"
    /\ \E writable \in BOOLEAN :
          IF writable
          THEN /\ report' = ReportFile("plain", TRUE, "complete", FALSE, "none", "none", "none")
               /\ pc' = "encrypt"
          ELSE /\ report' = report
               /\ pc' = "raised"
    /\ UNCHANGED <<issues, exitCode, checkIdx, cfgVars, chkVars>>

\* GPG_RECIPIENT as configured: empty, or a key id
Recipients == {<< >>, <<"o","p","s">>}

\* exit statuses of gpg (run_command gives -1 for a timeout)
GpgStatuses == {0, 2, -1}

\* `if GPG_ENABLED: report_file = encrypt_file_gpg(report_file)`
EncryptStep ==
    /\ pc = "encrypt"
    /\ \E enabled \in BOOLEAN :
          IF ~enabled
          THEN /\ report' = [report EXCEPT !.encrypt = "skipped"]
               /\ pc' = "email"
          ELSE \E recipient \in Recipients : \E gpg_exists \in BOOLEAN :
               \E rc \in GpgStatuses : \E removed \in BOOLEAN :
                  LET outcome == encrypt_file_gpg(enabled, recipient, gpg_exists,
                                                  rc, removed, report)
                  IN  /\ report' = outcome.report
                      /\ pc' = IF outcome.raised THEN "raised" ELSE "email"
    /\ UNCHANGED <<issues, exitCode, checkIdx, cfgVars, chkVars>>

\* `if EMAIL_ENABLED: send_email_report(report_file)`: the file named by
\* report_file is attached; a failure to send is logged and dropped
EmailStep ==
    /\ pc = "email"
    /\ \E email_enabled \in BOOLEAN :
          IF ~email_enabled
          THEN /\ report' = [report EXCEPT !.mail = "skipped"]
               /\ pc' = "summary"
          ELSE \E addressed \in BOOLEAN : \E failure \in MailFailures \cup {"none"} :
               \E use_tls \in BOOLEAN : \E credentials \in BOOLEAN :
                  LET outcome == send_email_report(email_enabled, addressed, failure,
                                                   use_tls, credentials, report)
                  IN  /\ report' = outcome.report
                      /\ pc' = IF outcome.raised THEN "raised" ELSE "summary"
    /\ UNCHANGED <<issues, exitCode, checkIdx, cfgVars, chkVars>>

\* the slip of one handler for everything main() raises, sys.exit included
ProcessExit_CatchAll(exception, status) ==
    IF exception = "KeyboardInterrupt" THEN 130 ELSE 1

\* `try: main()` with `except KeyboardInterrupt: sys.exit(130)` and
\* `except Exception: ... sys.exit(1)`; a SystemExit is caught by neither
ProcessExit(exception, status) ==
    IF exception = "KeyboardInterrupt" THEN 130
    ELSE IF exception = "Exception" THEN 1
    ELSE status

\* the steps of main() a signal can arrive in
RunningSteps == {"detect_os", "version_update", "checks", "report", "encrypt", "email", "summary"}

\* how far `with open(report_file, "w") as f: f.write(report_content)` had
\* come when the signal arrived: not opened, opened and nothing written,
\* or part of the content written
WriteProgress == {"none", "empty", "partial"}

\* Ctrl-C during main(): KeyboardInterrupt passes every `except Exception`
\* on its way out and reaches `except KeyboardInterrupt`
Interrupt ==
    /\ pc \in RunningSteps
    /\ IF pc = "report"
       THEN \E progress \in WriteProgress :
               report' = IF progress = "none" THEN report
                         ELSE ReportFile("plain", TRUE, progress, FALSE, "none", "none", "none")
       ELSE report' = report
    /\ exitCode' = ProcessExit("KeyboardInterrupt", -1)
    /\ pc' = "interrupted"
    /\ UNCHANGED <<issues, checkIdx, cfgVars, chkVars>>

\* `except Exception` around main(): the traceback is printed, exit status 1
Abort ==
    /\ pc = "raised"
    /\ exitCode' = ProcessExit("Exception", -1)
    /\ pc' = "aborted"
    /\ UNCHANGED <<issues, checkIdx, cfgVars, chkVars, report>>

\* the summary and sys.exit at the end of main()
Exit ==
    /\ pc = "summary"
    /\ exitCode' = ProcessExit("SystemExit", ExitCode(issues))
    /\ pc' = "exited"
    /\ UNCHANGED <<issues, checkIdx, cfgVars, chkVars, report>>

Next ==
    \/ DetectOS
    \/ MainVersionUpdate
    \/ RunCheck
    \/ GenerateReport
    \/ EncryptStep
    \/ EmailStep
    \/ Exit
    \/ Abort
    \/ Interrupt

Spec == Init /\ [][Next]_vars

-----------------------------------------------------------------------------
(* C1: at the end of a run that produced its report, the exit code is 2 if *)
(* the store holds a CRITICAL issue, otherwise 1 if it holds a HIGH issue, *)
(* otherwise 0; MEDIUM, LOW and INFO issues never change it.               *)

Holds(store, sev) == \E i \in 1..Len(store) : store[i].severity = sev

C1_ExitCodeBySeverity ==
    pc = "exited" =>
        /\ Holds(issues, "CRITICAL") => exitCode = 2
        /\ (~Holds(issues, "CRITICAL") /\ Holds(issues, "HIGH")) => exitCode = 1
        /\ (~Holds(issues, "CRITICAL") /\ ~Holds(issues, "HIGH")) => exitCode = 0

\* a finished run whose store holds a MEDIUM and a LOW issue only
C1_Witness ==
    /\ pc = "exited"
    /\ exitCode = 0
    /\ Holds(issues, "MEDIUM")
    /\ Holds(issues, "LOW")

-----------------------------------------------------------------------------
(* The resolver's specification: an environment and a config file are      *)
(* drawn, the module loads the file and evaluates its settings.            *)

\* at most this many environment variables and config-file options are set,
\* counted together
MaxSet == 2

\* names an operator may export: the upper-cased keys of four settings, the
\* names the example configuration documents, and one unrelated variable
EnvNames == {
    <<"O","U","T","P","U","T","_","D","I","R">>,
    <<"E","N","A","B","L","E","D">>,
    <<"E","M","A","I","L","_","E","N","A","B","L","E","D">>,
    <<"F","I","L","E","S","Y","S","T","E","M","_","W","A","R","N","I","N","G">>,
    <<"F","I","L","E","S","Y","S","T","E","M","_","W","A","R","N","I","N","G","_","T","H","R","E","S","H","O","L","D">>,
    <<"S","M","T","P","_","P","A","S","S","W","O","R","D">>,
    <<"V","E","R","S","I","O","N","_","C","H","E","C","K","_","T","I","M","E","O","U","T">>,
    <<"H","O","M","E">> }

\* values given to them
EnvTexts == {<<"T","R","U","E">>, <<"o","n">>, <<"0">>, <<"m","a","y","b","e">>, <<" ","8","5"," ">>}

\* options of the config file that may be written, and their values
CfgOptions == {
    <<"output", <<"o","u","t","p","u","t","_","d","i","r">>>>,
    <<"email", <<"e","n","a","b","l","e","d">>>>,
    <<"version_check", <<"e","n","a","b","l","e","d">>>>,
    <<"thresholds", <<"f","i","l","e","s","y","s","t","e","m","_","w","a","r","n","i","n","g">>>> }

CfgTexts == {<<"Y","e","s">>, <<"o","f","f">>, <<"m","a","y","b","e">>, <<"7","5">>, <<"5","0","%">>}

RECURSIVE Environments(_)
Environments(k) ==
    IF k = 0 THEN {[n \in EnvNames |-> Absent]}
    ELSE LET fewer == Environments(k - 1)
         IN  fewer \cup {[e EXCEPT ![n] = t] : e \in fewer, n \in EnvNames, t \in EnvTexts}

RECURSIVE OptionSets(_)
OptionSets(k) ==
    IF k = 0 THEN {[o \in CfgOptions |-> Absent]}
    ELSE LET fewer == OptionSets(k - 1)
         IN  fewer \cup {[f EXCEPT ![o] = t] : f \in fewer, o \in CfgOptions, t \in CfgTexts}

NoOptions == [o \in CfgOptions |-> Absent]

OptionSetsUpTo == [k \in 0..MaxSet |-> OptionSets(k)]

NumSet(f) == Cardinality({x \in DOMAIN f : f[x] # Absent})

ConfigFiles(k) ==
    {[file |-> "missing", loaded |-> FALSE, options |-> NoOptions],
     [file |-> "unparsable", loaded |-> FALSE, options |-> NoOptions]}
    \cup {[file |-> "present", loaded |-> FALSE, options |-> f] : f \in OptionSetsUpTo[k]}

InitCfg ==
    /\ pc = "load_config"
    /\ environ \in Environments(MaxSet)
    /\ config \in ConfigFiles(MaxSet - NumSet(environ))
    /\ euid \in {0, 1000}
    /\ resolved = << >>
    /\ issues = << >>
    /\ exitCode = -1
    /\ checkIdx = 1
    /\ IdleChecks

\* lines 46-74: _has_config is set only when the file exists and
\* ConfigParser.read() raised nothing
LoadConfig ==
    /\ pc = "load_config"
    /\ config' = [config EXCEPT !.loaded = (config.file = "present")]
    /\ pc' = "settings"
    /\ UNCHANGED <<issues, exitCode, checkIdx, environ, resolved, euid, chkVars, report>>

\* lines 126-163: every setting is resolved once
Configure ==
    /\ pc = "settings"
    /\ resolved' = [n \in SettingNames |-> ResolveSetting(n, environ, config, euid)]
    /\ pc' = "configured"
    /\ UNCHANGED <<issues, exitCode, checkIdx, environ, config, euid, chkVars, report>>

NextCfg ==
    \/ LoadConfig
    \/ Configure

SpecCfg == InitCfg /\ [][NextCfg]_vars

-----------------------------------------------------------------------------
(* Claims about the resolver, stated without _cfg.                         *)

TrueWords == {<<"t","r","u","e">>, <<"1">>, <<"y","e","s">>, <<"o","n">>}
FalseWords == {<<"f","a","l","s","e">>, <<"0">>, <<"n","o">>, <<"o","f","f">>}

\* the text of the environment variable a setting reads, and of its option
EnvTextOf(s) == getenv(environ, Upper(s.key))
FileTextOf(s) ==
    IF config.loaded /\ <<s.section, s.key>> \in DOMAIN config.options
    THEN config.options[<<s.section, s.key>>] ELSE Absent

\* a percent sign that is not doubled makes configparser reject the value
RECURSIVE BadPercent(_)
BadPercent(text) ==
    IF text = <<>> THEN FALSE
    ELSE IF Head(text) # "%" THEN BadPercent(Tail(text))
    ELSE IF Len(text) >= 2 /\ text[2] = "%" THEN BadPercent(SubSeq(text, 3, Len(text)))
    ELSE TRUE

\* the text coerces to the type at the environment layer
EnvCoerces(text, type) ==
    \/ type \in {"str", "bool"}
    \/ type = "int" /\ IntParses(text)
    \/ type = "float" /\ FloatParses(text)

\* the text coerces to the type at the config-file layer
FileCoerces(text, type) ==
    /\ ~BadPercent(text)
    /\ \/ type = "str"
       \/ type = "bool" /\ Lower(text) \in TrueWords \cup FalseWords
       \/ type = "int" /\ IntParses(text)
       \/ type = "float" /\ FloatParses(text)

\* the value a coercible text stands for (no explored text holds "%%")
Coerced(text, type) ==
    IF type = "bool" THEN Lower(text) \in TrueWords
    ELSE IF type = "int" THEN IntValue(text)
    ELSE IF type = "float" THEN FloatValue(text)
    ELSE text

WellTyped(v, type) ==
    IF type = "bool" THEN v \in BOOLEAN
    ELSE IF type = "int" THEN v \in Int
    ELSE IF type = "float" THEN DOMAIN v = {"negative", "whole", "frac"}
    ELSE DOMAIN v = 1..Len(v)

(* C2: every setting resolves to the environment value when the variable   *)
(* is present and coerces to the type; otherwise to the config-file value  *)
(* when a file was loaded, has the option and the value coerces; otherwise *)
(* to the default.  A value that fails coercion is skipped, never raised:  *)
(* every setting always has a value of its type.                           *)
C2_LayeredResolution ==
    pc = "configured" =>
        \A i \in 1..Len(SettingsTable) :
            LET s == Settings(euid)[i]
                e == EnvTextOf(s)
                f == FileTextOf(s)
                v == resolved[s.name]
            IN  /\ WellTyped(v, s.type)
                /\ IF e # Absent /\ EnvCoerces(e, s.type)
                   THEN v = Coerced(e, s.type)
                   ELSE IF f # Absent /\ FileCoerces(f, s.type)
                   THEN v = Coerced(f, s.type)
                   ELSE v = s.default

\* FILESYSTEM_WARNING is exported but is no integer, the file gives 75: the
\* environment layer is skipped and the file's value is taken
C2_Witness ==
    /\ pc = "configured"
    /\ getenv(environ, <<"F","I","L","E","S","Y","S","T","E","M","_","W","A","R","N","I","N","G">>) = <<"m","a","y","b","e">>
    /\ config.loaded
    /\ config.options[<<"thresholds", <<"f","i","l","e","s","y","s","t","e","m","_","w","a","r","n","i","n","g">>>>] = <<"7","5">>
    /\ resolved["FILESYSTEM_WARNING_THRESHOLD"] = 75

(* C3: for a boolean setting, at the environment layer and at the          *)
(* config-file layer alike, a present value resolves to true exactly when  *)
(* it is, ignoring case, one of true, 1, yes, on, and to false for every   *)
(* other present value; it never falls through to the default.             *)
C3_BooleanNeverFallsThrough ==
    pc = "configured" =>
        \A i \in 1..Len(SettingsTable) :
            LET s == Settings(euid)[i]
                e == EnvTextOf(s)
                f == FileTextOf(s)
            IN  s.type = "bool" =>
                    /\ e # Absent => resolved[s.name] = (Lower(e) \in TrueWords)
                    /\ (e = Absent /\ f # Absent) =>
                            resolved[s.name] = (Lower(f) \in TrueWords)

(* C4: each variable the configuration doc names overrides its setting:    *)
(* OUTPUT_DIR, EMAIL_ENABLED, SMTP_PASSWORD, FILESYSTEM_WARNING_THRESHOLD  *)
(* or VERSION_CHECK_TIMEOUT in the environment makes the setting of that   *)
(* name take that value, ahead of the config file and the default.         *)
DocumentedOverrides == {"OUTPUT_DIR", "EMAIL_ENABLED", "SMTP_PASSWORD",
                        "FILESYSTEM_WARNING_THRESHOLD", "VERSION_CHECK_TIMEOUT"}

\* the documented variable carries the name of the setting it overrides
DocumentedVariable(name) ==
    CASE name = "OUTPUT_DIR" -> <<"O","U","T","P","U","T","_","D","I","R">>
      [] name = "EMAIL_ENABLED" -> <<"E","M","A","I","L","_","E","N","A","B","L","E","D">>
      [] name = "SMTP_PASSWORD" -> <<"S","M","T","P","_","P","A","S","S","W","O","R","D">>
      [] name = "FILESYSTEM_WARNING_THRESHOLD" -> <<"F","I","L","E","S","Y","S","T","E","M","_","W","A","R","N","I","N","G","_","T","H","R","E","S","H","O","L","D">>
      [] name = "VERSION_CHECK_TIMEOUT" -> <<"V","E","R","S","I","O","N","_","C","H","E","C","K","_","T","I","M","E","O","U","T">>

C4_DocumentedOverridesApply ==
    pc = "configured" =>
        \A name \in DocumentedOverrides :
            LET s == SettingOf(name, euid)
                e == getenv(environ, DocumentedVariable(name))
            IN  (e # Absent /\ EnvCoerces(e, s.type)) =>
                    resolved[name] = Coerced(e, s.type)

(* C5: one environment variable per setting: changing the value of a       *)
(* single variable changes the resolved value of at most one setting.      *)
Setenv(env, n, t) == [env EXCEPT ![n] = t]

ChangedBy(n, t) ==
    {name \in SettingNames :
        ResolveSetting(name, Setenv(environ, n, t), config, euid) # resolved[name]}

C5_OneVariablePerSetting ==
    pc = "configured" =>
        \A n \in EnvNames : \A t \in EnvTexts \cup {Absent} :
            Cardinality(ChangedBy(n, t)) <= 1

-----------------------------------------------------------------------------
(* The checks' specification: thresholds are drawn as the resolver could   *)
(* have set them, the store holds what earlier checks left, and one check  *)
(* runs on what its probes return.                                         *)

\* most data lines in the output of `df -h`
MaxRows == 1
\* most lines in /etc/ssh/sshd_config
MaxLines == 2
\* most lines of `ss -tuln` besides the sockets on the SSH port
MaxSockets == 2

DefaultSettings == [n \in SettingNames |-> SettingOf(n, 0).default]

Thresholds(fw, fc, mw, mc, lw, lc) ==
    [DefaultSettings EXCEPT
        !["FILESYSTEM_WARNING_THRESHOLD"] = fw, !["FILESYSTEM_CRITICAL_THRESHOLD"] = fc,
        !["MEMORY_WARNING_THRESHOLD"] = mw, !["MEMORY_CRITICAL_THRESHOLD"] = mc,
        !["LOAD_WARNING_MULTIPLIER"] = lw, !["LOAD_CRITICAL_MULTIPLIER"] = lc]

\* the defaults of the script, the values of the example configuration, and
\* a third choice with a filesystem warning below the fixed 75 tier
ThresholdProfiles == {
    Thresholds(80, 90, 80, 90, 200, 300),
    Thresholds(85, 98, 85, 95, 70, 100),
    Thresholds(70, 80, 50, 75, 100, 200) }

EarlierStores == {<< >>, <<Issue("INFO", "Security")>>}

\* fields of a `df -h` line: Filesystem Size Used Avail Use% Mounted-on
DfFilesystems == {<<"/","d","e","v","/","s","d","a","1">>, <<"t","m","p","f","s">>, <<"d","e","v","t","m","p","f","s">>, <<"n","o","n","e">>, <<"u","d","e","v">>}
DfUses == {<<"6","0","%">>, <<"7","2","%">>, <<"7","5","%">>, <<"7","9","%">>, <<"8","0","%">>, <<"8","9","%">>, <<"9","0","%">>, <<"9","7","%">>, <<"9","8","%">>, <<"-">>}
DfHeader == <<<<"F","i","l","e","s","y","s","t","e","m">>, <<"S","i","z","e">>, <<"U","s","e","d">>, <<"A","v","a","i","l">>, <<"U","s","e","%">>, <<"M","o","u","n","t","e","d">>, <<"o","n">>>>
DfLines ==
    {<<fs, <<"9","G">>, <<"1","G">>, <<"8","G">>, use, <<"/">>>> :
        fs \in DfFilesystems, use \in DfUses}
    \cup {<< >>, <<<<"/","d","e","v","/","m","a","p","p","e","r","/","v","g","-","r","o","o","t">>>>}

RECURSIVE DfOutputs(_)
DfOutputs(k) ==
    IF k = 0 THEN {<<DfHeader>>}
    ELSE LET fewer == DfOutputs(k - 1)
         IN  fewer \cup {Append(o, l) : o \in fewer, l \in DfLines}

\* `free -m`: header, then "Mem: total used ..."
FreeHeader == <<<<"t","o","t","a","l">>, <<"u","s","e","d">>, <<"f","r","e","e">>>>
FreeTotals == {<<"4","0","9","6">>, <<"0">>, <<"n","/","a">>}
FreeUsed == {<<"1","0","2","4">>, <<"2","0","4","8">>, <<"3","0","7","2">>, <<"3","5","8","4">>, <<"4","0","9","6">>}
FreeOutputs ==
    {<<FreeHeader, <<<<"M","e","m",":">>, t, u, <<"0">>>>>> : t \in FreeTotals, u \in FreeUsed}
    \cup {<<FreeHeader>>, <<FreeHeader, <<<<"M","e","m",":">>>>>>}

\* /proc/loadavg: 1, 5 and 15 minute averages, then other fields
LoadFirst == {<<"0",".","5","0">>, <<"0",".","7","0">>, <<"1",".","0","0">>, <<"2",".","0","0">>, <<"2",".","8","0">>, <<"3",".","0","0">>, <<"4",".","0","0">>, <<"1","2",".","0","0">>, <<"x">>}
LoadContents ==
    {<<l, <<"2",".","0","0">>, <<"1",".","0","0">>>> : l \in LoadFirst} \cup {<<<<"0",".","1","0">>>>}
CpuCounts == {0, 1, 2, 4}

\* lines of /etc/ssh/sshd_config
SshdLines == {
    \* PasswordAuthentication yes
    <<"P","a","s","s","w","o","r","d","A","u","t","h","e","n","t","i","c","a","t","i","o","n"," ","y","e","s">>,
    \* PasswordAuthentication no
    <<"P","a","s","s","w","o","r","d","A","u","t","h","e","n","t","i","c","a","t","i","o","n"," ","n","o">>,
    \* #PasswordAuthentication no
    <<"#","P","a","s","s","w","o","r","d","A","u","t","h","e","n","t","i","c","a","t","i","o","n"," ","n","o">>,
    \* PasswordAuthentication yes #no
    <<"P","a","s","s","w","o","r","d","A","u","t","h","e","n","t","i","c","a","t","i","o","n"," ","y","e","s"," ","#","n","o">>,
    \* PubkeyAuthentication no
    <<"P","u","b","k","e","y","A","u","t","h","e","n","t","i","c","a","t","i","o","n"," ","n","o">>,
    \* HostKey /etc/ssh/ssh_host_rsa_key
    <<"H","o","s","t","K","e","y"," ","/","e","t","c","/","s","s","h","/","s","s","h","_","h","o","s","t","_","r","s","a","_","k","e","y">>,
    \* HostKey /etc/ssh/ssh_host_ed25519_key
    <<"H","o","s","t","K","e","y"," ","/","e","t","c","/","s","s","h","/","s","s","h","_","h","o","s","t","_","e","d","2","5","5","1","9","_","k","e","y">>,
    \* PubkeyAcceptedKeyTypes ssh-rsa
    <<"P","u","b","k","e","y","A","c","c","e","p","t","e","d","K","e","y","T","y","p","e","s"," ","s","s","h","-","r","s","a">>,
    \* PermitRootLogin no
    <<"P","e","r","m","i","t","R","o","o","t","L","o","g","i","n"," ","n","o">>,
    \* PermitRootLogin yes
    <<"P","e","r","m","i","t","R","o","o","t","L","o","g","i","n"," ","y","e","s">>,
    \* PermitRootLogin prohibit-password
    <<"P","e","r","m","i","t","R","o","o","t","L","o","g","i","n"," ","p","r","o","h","i","b","i","t","-","p","a","s","s","w","o","r","d">>,
    \* #PermitRootLogin no
    <<"#","P","e","r","m","i","t","R","o","o","t","L","o","g","i","n"," ","n","o">>,
    \*   PermitRootLogin no
    <<" "," ","P","e","r","m","i","t","R","o","o","t","L","o","g","i","n"," ","n","o">>,
    \* PermitRootLogin none
    <<"P","e","r","m","i","t","R","o","o","t","L","o","g","i","n"," ","n","o","n","e">>,
    \* PermitRootLogin yes #no
    <<"P","e","r","m","i","t","R","o","o","t","L","o","g","i","n"," ","y","e","s"," ","#","n","o">> }

RECURSIVE SshdConfigs(_)
SshdConfigs(k) ==
    IF k = 0 THEN {<< >>}
    ELSE LET fewer == SshdConfigs(k - 1)
         IN  fewer \cup {Append(c, l) : c \in fewer, l \in SshdLines}

\* (returncode, stdout) of `systemctl is-active sshd`; -1 with no output
\* when the command could not be run
ServiceStates == {
    [rc |-> 0, stdout |-> <<"a","c","t","i","v","e">>], [rc |-> 3, stdout |-> <<"i","n","a","c","t","i","v","e">>],
    [rc |-> 3, stdout |-> <<"f","a","i","l","e","d">>], [rc |-> -1, stdout |-> << >>] }
FileStates == {"missing", "denied", "readable"}

\* lines of `ss -tuln` (and of `netstat -tuln`)
SocketLines == {
    \* tcp LISTEN 0 128 0.0.0.0:23 0.0.0.0:*
    <<"t","c","p"," ","L","I","S","T","E","N"," ","0"," ","1","2","8"," ","0",".","0",".","0",".","0",":","2","3"," ","0",".","0",".","0",".","0",":","*">>,
    \* tcp LISTEN 0 128 *:21 *:*
    <<"t","c","p"," ","L","I","S","T","E","N"," ","0"," ","1","2","8"," ","*",":","2","1"," ","*",":","*">>,
    \* tcp LISTEN 0 5 [::]:513 [::]:*
    <<"t","c","p"," ","L","I","S","T","E","N"," ","0"," ","5"," ","[",":",":","]",":","5","1","3"," ","[",":",":","]",":","*">>,
    \* tcp LISTEN 0 5 0.0.0.0:514 0.0.0.0:*
    <<"t","c","p"," ","L","I","S","T","E","N"," ","0"," ","5"," ","0",".","0",".","0",".","0",":","5","1","4"," ","0",".","0",".","0",".","0",":","*">>,
    \* tcp LISTEN 0 5 0.0.0.0:69 0.0.0.0:*
    <<"t","c","p"," ","L","I","S","T","E","N"," ","0"," ","5"," ","0",".","0",".","0",".","0",":","6","9"," ","0",".","0",".","0",".","0",":","*">>,
    \* tcp LISTEN 0 128 0.0.0.0:2323 0.0.0.0:*
    <<"t","c","p"," ","L","I","S","T","E","N"," ","0"," ","1","2","8"," ","0",".","0",".","0",".","0",":","2","3","2","3"," ","0",".","0",".","0",".","0",":","*">>,
    \* tcp LISTEN 0 128 0.0.0.0:123 0.0.0.0:*
    <<"t","c","p"," ","L","I","S","T","E","N"," ","0"," ","1","2","8"," ","0",".","0",".","0",".","0",":","1","2","3"," ","0",".","0",".","0",".","0",":","*">>,
    \* udp UNCONN 0 0 0.0.0.0:69 0.0.0.0:*
    <<"u","d","p"," ","U","N","C","O","N","N"," ","0"," ","0"," ","0",".","0",".","0",".","0",":","6","9"," ","0",".","0",".","0",".","0",":","*">>,
    \* tcp 0 0 0.0.0.0:23 0.0.0.0:* LISTEN
    <<"t","c","p"," ","0"," ","0"," ","0",".","0",".","0",".","0",":","2","3"," ","0",".","0",".","0",".","0",":","*"," ","L","I","S","T","E","N">>,
    \* Netid State Recv-Q Send-Q Local Address:Port Peer Address:Port
    <<"N","e","t","i","d"," ","S","t","a","t","e"," ","R","e","c","v","-","Q"," ","S","e","n","d","-","Q"," ","L","o","c","a","l"," ","A","d","d","r","e","s","s",":","P","o","r","t"," ","P","e","e","r"," ","A","d","d","r","e","s","s",":","P","o","r","t">> }

\* a listening socket on the SSH port, of which a host may have many
SshSocket == <<"t","c","p"," ","L","I","S","T","E","N"," ","0"," ","1","2","8"," ","0",".","0",".","0",".","0",":","2","2"," ","0",".","0",".","0",".","0",":","*">>
OtherSocketCounts == {0, 19, 20}
RECURSIVE Repeat(_, _)
Repeat(line, n) == IF n = 0 THEN << >> ELSE <<line>> \o Repeat(line, n - 1)

RECURSIVE SocketOutputs(_)
SocketOutputs(k) ==
    IF k = 0 THEN {<< >>}
    ELSE LET fewer == SocketOutputs(k - 1)
         IN  fewer \cup {Append(o, l) : o \in fewer, l \in SocketLines}

\* what run_command returns for `nslookup <host>`: an answer, a server that
\* cannot find the name, and the (-1, "", message) of a missing or timed-out
\* command
Lookups == {
    [rc |-> 0, stdout |-> <<"N","o","n","-","a","u","t","h","o","r","i","t","a","t","i","v","e"," ","A","n","s","w","e","r">>],
    [rc |-> 1, stdout |-> <<"c","a","n","'","t"," ","f","i","n","d">>],
    [rc |-> -1, stdout |-> << >>] }

\* what run_command returns for `ip route show default`
Routes == {
    [rc |-> 0, stdout |-> <<"d","e","f","a","u","l","t"," ","v","i","a"," ","1","0",".","0",".","0",".","1"," ","d","e","v"," ","e","t","h","0">>],
    [rc |-> 0, stdout |-> << >>],
    [rc |-> -1, stdout |-> << >>] }

InitChecks ==
    /\ pc = "check"
    /\ issues \in EarlierStores
    /\ resolved \in ThresholdProfiles
    /\ environ = << >>
    /\ config = [file |-> "missing", loaded |-> FALSE, options |-> << >>]
    /\ euid = 0
    /\ exitCode = -1
    /\ checkIdx = 1
    /\ IdleChecks

\* a check ran on `input` and ended with `outcome`: its issues are appended
\* to the store; an exception that left it is on its way up the stack
Ran(name, input, outcome) ==
    /\ pc = "check"
    /\ probe' = [check |-> name, input |-> input, raised |-> outcome.raised,
                 opened |-> outcome.opened]
    /\ appended' = outcome.appends
    /\ issues' = issues \o outcome.appends
    /\ pc' = IF outcome.raised THEN "raised" ELSE "returned"
    /\ UNCHANGED <<exitCode, checkIdx, cfgVars, report>>

CheckFilesystemUsage ==
    /\ pc = "check"
    /\ \E rc \in {0, 1, -1} : \E lines \in DfOutputs(MaxRows) :
        /\ rc # 0 => lines = <<DfHeader>>
        /\ Ran("check_filesystem_usage", [rc |-> rc, lines |-> lines],
               check_filesystem_usage(rc, lines,
                                      resolved["FILESYSTEM_WARNING_THRESHOLD"],
                                      resolved["FILESYSTEM_CRITICAL_THRESHOLD"]))

CheckMemoryUsage ==
    /\ pc = "check"
    /\ \E rc \in {0, -1} : \E lines \in FreeOutputs :
        /\ rc # 0 => lines = <<FreeHeader>>
        /\ Ran("check_memory_usage", [rc |-> rc, lines |-> lines],
               check_memory_usage(rc, lines,
                                  resolved["MEMORY_WARNING_THRESHOLD"],
                                  resolved["MEMORY_CRITICAL_THRESHOLD"]))

CheckLoadAverage ==
    /\ pc = "check"
    /\ \E readable \in BOOLEAN : \E loadavg \in LoadContents : \E cpus \in CpuCounts :
        /\ ~readable => (loadavg = <<<<"0",".","1","0">>>> /\ cpus = 1)
        /\ Ran("check_load_average",
               [readable |-> readable, loadavg |-> loadavg, cpu_count |-> cpus],
               check_load_average(readable, loadavg, cpus,
                                  resolved["LOAD_WARNING_MULTIPLIER"],
                                  resolved["LOAD_CRITICAL_MULTIPLIER"]))

CheckSshStatus ==
    /\ pc = "check"
    /\ \E svc \in ServiceStates : \E file \in FileStates :
       \E content \in SshdConfigs(MaxLines) : \E rsa \in BOOLEAN : \E ed \in BOOLEAN :
        /\ file # "readable" => content = << >>
        /\ (svc.rc # 0 \/ file # "readable") => (~rsa /\ ~ed)
        /\ Ran("check_ssh_status",
               [rc |-> svc.rc, stdout |-> svc.stdout, sshd_config |-> file,
                content |-> content, rsa_keys_in_use |-> rsa,
                ed25519_keys_in_use |-> ed],
               check_ssh_status(svc.rc, svc.stdout, file, content, rsa, ed))

CheckRootLogin ==
    /\ pc = "check"
    /\ \E file \in FileStates : \E content \in SshdConfigs(MaxLines) :
        /\ file # "readable" => content = << >>
        /\ Ran("check_root_login", [sshd_config |-> file, content |-> content],
               check_root_login(file, content))

CheckOpenPorts ==
    /\ pc = "check"
    /\ \E ss_rc \in {0, -1} : \E netstat_rc \in {0, 1} :
       \E some \in SocketOutputs(MaxSockets) : \E n \in OtherSocketCounts :
        LET stdout == some \o Repeat(SshSocket, n)
            ss_stdout == IF ss_rc = 0 THEN stdout ELSE << >>
            netstat_stdout == IF ss_rc # 0 /\ netstat_rc = 0 THEN stdout ELSE << >>
        IN  /\ ss_rc = 0 => netstat_rc = 0
            /\ (ss_rc # 0 /\ netstat_rc # 0) => (some = << >> /\ n = 0)
            /\ Ran("check_open_ports",
                   [ss_rc |-> ss_rc, ss_stdout |-> ss_stdout,
                    netstat_rc |-> netstat_rc, netstat_stdout |-> netstat_stdout],
                   check_open_ports(ss_rc, ss_stdout, netstat_rc, netstat_stdout))

CheckDnsResolution ==
    /\ pc = "check"
    /\ \E first \in Lookups : \E second \in Lookups :
          Ran("check_dns_resolution", [lookups |-> <<first, second>>],
              check_dns_resolution(<<first, second>>))

CheckDefaultGateway ==
    /\ pc = "check"
    /\ \E route \in Routes : \E ping_rc \in {0, 1, -1} :
          Ran("check_default_gateway", [rc |-> route.rc, stdout |-> route.stdout, ping_rc |-> ping_rc],
              check_default_gateway(route.rc, route.stdout, ping_rc))

NextChecks ==
    \/ CheckFilesystemUsage
    \/ CheckMemoryUsage
    \/ CheckLoadAverage
    \/ CheckSshStatus
    \/ CheckRootLogin
    \/ CheckOpenPorts
    \/ CheckDnsResolution
    \/ CheckDefaultGateway

SpecChecks == InitChecks /\ [][NextChecks]_vars

-----------------------------------------------------------------------------
(* Claims about the threshold checks.                                      *)

Severity(store) == [i \in 1..Len(store) |-> store[i].severity]

\* a data line of `df -h` the claim speaks of: six fields, an integer usage
DfUsageKnown(parts) == Len(parts) >= 6 /\ IntParses(RStripPercent(parts[5]))
DfUsage(parts) == IntValue(RStripPercent(parts[5]))

FsWarning == resolved["FILESYSTEM_WARNING_THRESHOLD"]
FsCritical == resolved["FILESYSTEM_CRITICAL_THRESHOLD"]

\* what the amended claim expects of one line
C6_ExpectedOfLine(parts) ==
    IF ~DfUsageKnown(parts) \/ parts[1] \in PseudoFilesystems THEN << >>
    ELSE LET u == DfUsage(parts)
         IN  IF u >= FsCritical THEN <<"CRITICAL">>
             ELSE IF FsWarning <= u /\ u < FsCritical THEN <<"HIGH">>
             ELSE IF 75 <= u /\ u < FsWarning THEN <<"MEDIUM">>
             ELSE << >>

\* what the claim as written expects of one line
C6_OriginalOfLine(parts) ==
    IF ~DfUsageKnown(parts) \/ parts[1] \in PseudoFilesystems THEN << >>
    ELSE LET u == DfUsage(parts)
         IN  IF u >= FsCritical THEN <<"CRITICAL">>
             ELSE IF FsWarning <= u /\ u < FsCritical THEN <<"HIGH">>
             ELSE << >>

RECURSIVE C6_Expected(_)
C6_Expected(lines) ==
    IF lines = << >> THEN << >>
    ELSE C6_ExpectedOfLine(Head(lines)) \o C6_Expected(Tail(lines))

RECURSIVE C6_OriginalExpected(_)
C6_OriginalExpected(lines) ==
    IF lines = << >> THEN << >>
    ELSE C6_OriginalOfLine(Head(lines)) \o C6_OriginalExpected(Tail(lines))

FsRan ==
    /\ probe.check = "check_filesystem_usage"
    /\ probe.input.rc = 0
    /\ FsWarning <= FsCritical

MemRan ==
    /\ probe.check = "check_memory_usage"
    /\ probe.input.rc = 0
    /\ Len(probe.input.lines) >= 2
    /\ Len(probe.input.lines[2]) >= 3
    /\ IntParses(probe.input.lines[2][2])
    /\ IntParses(probe.input.lines[2][3])
    /\ IntValue(probe.input.lines[2][2]) > 0

(* C7: memory classification is a total, non-overlapping function of the   *)
(* percentage used/total*100 against the memory thresholds, boundaries     *)
(* belonging to the stricter tier: a percentage equal to the critical      *)
(* threshold is CRITICAL (not HIGH), one equal to the warning threshold is *)
(* HIGH.                                                                   *)
C7_MemoryBoundariesStricter ==
    MemRan =>
        LET total == IntValue(probe.input.lines[2][2])
            used == IntValue(probe.input.lines[2][3])
            warning == resolved["MEMORY_WARNING_THRESHOLD"]
            critical == resolved["MEMORY_CRITICAL_THRESHOLD"]
        IN  /\ ~probe.raised
            /\ Len(appended) = 1
            /\ used * 100 >= critical * total => appended[1].severity = "CRITICAL"
            /\ (used * 100 >= warning * total /\ used * 100 < critical * total)
                    => appended[1].severity = "HIGH"
            /\ used * 100 < warning * total
                    => appended[1].severity \notin {"CRITICAL", "HIGH"}

LoadRan ==
    /\ probe.check = "check_load_average"
    /\ probe.input.readable
    /\ Len(probe.input.loadavg) >= 3
    /\ \A i \in 1..3 : FloatParses(probe.input.loadavg[i])

(* C8: check_load_average appends exactly one issue: CRITICAL when         *)
(* load_1min / cpu_count >= the critical multiplier, else HIGH when it is  *)
(* > the warning multiplier, else INFO; load 4.0 on 4 CPUs with critical   *)
(* 1.0 is CRITICAL.                                                        *)
C8_LoadCriticalAtMultiplier ==
    LoadRan =>
        LET load == Hundredths(probe.input.loadavg[1])
            cpus == IF probe.input.cpu_count = 0 THEN 1 ELSE probe.input.cpu_count
            warning == resolved["LOAD_WARNING_MULTIPLIER"]
            critical == resolved["LOAD_CRITICAL_MULTIPLIER"]
        IN  /\ Len(appended) = 1
            /\ appended[1].severity =
                    IF load >= critical * cpus THEN "CRITICAL"
                    ELSE IF load > warning * cpus THEN "HIGH"
                    ELSE "INFO"

-----------------------------------------------------------------------------
(* Claims about the SSH checks.  The claims speak of the value of a        *)
(* directive: a directive line is a line whose first whitespace-separated  *)
(* field is the keyword, its value is the second field.                    *)

\* the fields of a line, separated by runs of whitespace
WordLen(text) ==
    CHOOSE n \in 1..Len(text) :
        /\ \A i \in 1..n : ~IsSpace(text[i])
        /\ n = Len(text) \/ IsSpace(text[n + 1])
RECURSIVE Fields(_)
Fields(text) ==
    LET t == LStrip(text)
    IN  IF t = << >> THEN << >>
        ELSE <<SubSeq(t, 1, WordLen(t))>> \o Fields(SubSeq(t, WordLen(t) + 1, Len(t)))

Directives(content, keyword) ==
    SelectSeq(content, LAMBDA l : Fields(l) # << >> /\ Fields(l)[1] = keyword)

\* the value of the last non-comment occurrence of the directive
EffectiveValue(content, keyword) ==
    LET d == Directives(content, keyword)
    IN  IF d = << >> THEN Absent
        ELSE IF Len(Fields(d[Len(d)])) < 2 THEN << >>
        ELSE Fields(d[Len(d)])[2]

SshRan == probe.check = "check_ssh_status"
SshActive == probe.input.rc = 0 /\ probe.input.stdout = <<"a","c","t","i","v","e">>

\* C9: with the service active and sshd_config readable, when the value of
\* the last non-comment PasswordAuthentication directive is yes the check
\* appends exactly one HIGH issue and looks at no key; with the service
\* inactive it appends exactly one INFO issue and opens no file.
C9_LastPasswordDirectiveWins ==
    SshRan =>
        /\ ~SshActive => (Severity(appended) = <<"INFO">> /\ probe.opened = {})
        /\ ( /\ SshActive
             /\ probe.input.sshd_config = "readable"
             /\ EffectiveValue(probe.input.content, <<"P","a","s","s","w","o","r","d","A","u","t","h","e","n","t","i","c","a","t","i","o","n">>) = <<"y","e","s">> )
           => (Severity(appended) = <<"HIGH">> /\ AuthorizedKeys \notin probe.opened)

RootRan ==
    /\ probe.check = "check_root_login"
    /\ probe.input.sshd_config = "readable"

\* C10: with sshd_config readable, check_root_login appends exactly one
\* issue: MEDIUM when no non-comment PermitRootLogin directive exists, INFO
\* when the value of the last one is exactly no, HIGH for any other value.
C10_RootLoginByLastValue ==
    RootRan =>
        LET value == EffectiveValue(probe.input.content, <<"P","e","r","m","i","t","R","o","o","t","L","o","g","i","n">>)
        IN  Severity(appended) =
                << IF value = Absent THEN "MEDIUM"
                   ELSE IF value = <<"n","o">> THEN "INFO" ELSE "HIGH" >>

-----------------------------------------------------------------------------
(* Claim about the open ports.  A listening line is a line with the field  *)
(* LISTEN; the port it is bound to follows the last colon of its local     *)
(* address, the first field that holds a colon.                            *)

RECURSIVE AfterLastColon(_)
AfterLastColon(text) ==
    IF text = << >> \/ text[Len(text)] = ":" THEN << >>
    ELSE Append(AfterLastColon(SubSeq(text, 1, Len(text) - 1)), text[Len(text)])

IsListeningLine(line) ==
    LET f == Fields(line)
    IN  \E i \in 1..Len(f) : f[i] = <<"L","I","S","T","E","N">>

BoundPort(line) ==
    LET f == Fields(line)
        local == SelectSeq(f, LAMBDA w : Contains(w, <<":">>))
    IN  IF local = << >> THEN << >> ELSE AfterLastColon(local[1])

PortsRan ==
    /\ probe.check = "check_open_ports"
    /\ probe.input.ss_rc = 0 \/ probe.input.netstat_rc = 0

PortsOutput ==
    IF probe.input.ss_rc = 0 THEN probe.input.ss_stdout ELSE probe.input.netstat_stdout

\* C11: check_open_ports appends exactly one count issue, MEDIUM when more
\* than 20 lines are listening and INFO otherwise, and one CRITICAL issue
\* for each port of the table {23, 21, 69, 513, 514} that some listening
\* line is bound to, none for a table port that is not listening.
C11_DangerousPortsAndCount ==
    PortsRan =>
        LET distinct == {l \in {PortsOutput[i] : i \in 1..Len(PortsOutput)} :
                            IsListeningLine(l)}
            listening == SelectSeq(PortsOutput, LAMBDA l : l \in distinct)
            bound == {BoundPort(l) : l \in distinct}
            table == {dangerous_ports[i] : i \in 1..Len(dangerous_ports)}
            critical == SelectSeq(appended, LAMBDA a : a.severity = "CRITICAL")
            others == SelectSeq(appended, LAMBDA a : a.severity # "CRITICAL")
        IN  /\ Severity(others) = <<IF Len(listening) > 20 THEN "MEDIUM" ELSE "INFO">>
            /\ {critical[i].port : i \in 1..Len(critical)} = table \cap bound
            /\ Len(critical) = Cardinality(table \cap bound)

\* telnet is listening next to a socket on port 2323 and twenty others: a
\* MEDIUM count issue and one CRITICAL issue for port 23
C11_Witness ==
    /\ PortsRan
    /\ Len(PortsOutput) = 22
    /\ PortsOutput[1] = <<"t","c","p"," ","L","I","S","T","E","N"," ","0"," ","1","2","8"," ","0",".","0",".","0",".","0",":","2","3","2","3"," ","0",".","0",".","0",".","0",":","*">>
    /\ PortsOutput[2] = <<"t","c","p"," ","L","I","S","T","E","N"," ","0"," ","1","2","8"," ","0",".","0",".","0",".","0",":","2","3"," ","0",".","0",".","0",".","0",":","*">>
    /\ appended = <<Issue("MEDIUM", "Security"), PortIssue("CRITICAL", "Security", <<"2","3">>)>>

-----------------------------------------------------------------------------
(* The update check on its own: the functions are applied to version       *)
(* strings, to version tuples and to the outcomes of the release fetch.    *)

\* largest number in an explored version tuple
MaxPart == 2

\* f"{major}.{minor}.{patch}"
Rendered(v) == Str(v[1]) \o <<".">> \o Str(v[2]) \o <<".">> \o Str(v[3])

Versions == (0..MaxPart) \X (0..MaxPart) \X (0..MaxPart)
\* tuples with a number of two digits among them
WideVersions == LET parts == (0..MaxPart) \cup {10} IN parts \X parts \X parts

VersionStrings == {
    \* '1.2.3'
    <<"1",".","2",".","3">>,
    \* 'v1.2.3'
    <<"v","1",".","2",".","3">>,
    \* 'vv1.2.3'
    <<"v","v","1",".","2",".","3">>,
    \* '1.2'
    <<"1",".","2">>,
    \* '1.2.3.4'
    <<"1",".","2",".","3",".","4">>,
    \* '1..3'
    <<"1",".",".","3">>,
    \* '+1.2.3'
    <<"+","1",".","2",".","3">>,
    \* '-1.2.3'
    <<"-","1",".","2",".","3">>,
    \* '-0.1.2'
    <<"-","0",".","1",".","2">>,
    \* ' 1.2.3'
    <<" ","1",".","2",".","3">>,
    \* '1_0.2.3'
    <<"1","_","0",".","2",".","3">>,
    \* '1.x.3'
    <<"1",".","x",".","3">>,
    \* 'bogus'
    <<"b","o","g","u","s">>,
    \* ''
    << >>,
    \* 'v'
    <<"v">>,
    \* '1.2.3-rc1'
    <<"1",".","2",".","3","-","r","c","1">>,
    \* '1.2.10'
    <<"1",".","2",".","1","0">>,
    \* 'v.'
    <<"v",".">> }
    \cup {Rendered(v) : v \in WideVersions}
    \cup {<<"v">> \o Rendered(v) : v \in WideVersions}

\* values of DISABLE_VERSION_CHECK
DisableValues == {Absent, <<"1">>, <<"0">>, <<"t","r","u","e">>}

\* tag_name of the latest release
ReleaseTags == {
    \* 'v1.3.0'
    <<"v","1",".","3",".","0">>,
    \* 'v1.2.1'
    <<"v","1",".","2",".","1">>,
    \* '1.2.0'
    <<"1",".","2",".","0">>,
    \* 'v1.2.10'
    <<"v","1",".","2",".","1","0">>,
    \* 'bogus'
    <<"b","o","g","u","s">>,
    \* 'vv1.3.0'
    <<"v","v","1",".","3",".","0">>,
    \* '1.3'
    <<"1",".","3">>,
    \* 'v2.0.0-rc1'
    <<"v","2",".","0",".","0","-","r","c","1">>, << >> }

\* what the fetch of the latest release gives
FetchOutcomes ==
    {[kind |-> k] : k \in {"HTTPError", "URLError", "timeout", "JSONDecodeError",
                           "not_object", "null_tag", "no_tag"}}
    \cup {[kind |-> "tag", tag_name |-> t] : t \in ReleaseTags}

InitVersion ==
    /\ pc = "version"
    /\ issues = << >>
    /\ exitCode = -1
    /\ checkIdx = 1
    /\ IdleResolver
    /\ IdleChecks

ParseVersion ==
    /\ pc = "version"
    /\ \E s \in VersionStrings :
          LET r == parse_semantic_version(s)
          IN  probe' = [check |-> "parse_semantic_version", input |-> s,
                        result |-> r.value, raised |-> r.raised]
    /\ pc' = "returned"
    /\ UNCHANGED <<issues, appended, exitCode, checkIdx, cfgVars, report>>

CompareVersions ==
    /\ pc = "version"
    /\ \E a \in Versions : \E b \in Versions : \E c \in Versions :
          probe' = [check |-> "compare_versions", input |-> <<a, b, c>>,
                    result |-> [ab |-> compare_versions(a, b),
                                ba |-> compare_versions(b, a),
                                bc |-> compare_versions(b, c),
                                ac |-> compare_versions(a, c)],
                    raised |-> FALSE]
    /\ pc' = "returned"
    /\ UNCHANGED <<issues, appended, exitCode, checkIdx, cfgVars, report>>

CheckVersionUpdate ==
    /\ pc = "version"
    /\ \E disable_env \in DisableValues : \E fetch \in FetchOutcomes :
       \E VERSION_CHECK_ENABLED \in BOOLEAN :
          \* the setting is read at line 162 and passed to nothing
          LET outcome == check_version_update(disable_env, fetch, ScriptVersion)
          IN  /\ probe' = [check |-> "check_version_update",
                           input |-> [disable_env |-> disable_env, fetch |-> fetch,
                                      enabled |-> VERSION_CHECK_ENABLED],
                           raised |-> outcome.raised, opened |-> outcome.opened]
              /\ appended' = outcome.appends
              /\ issues' = issues \o outcome.appends
              /\ pc' = IF outcome.raised THEN "raised" ELSE "returned"
    /\ UNCHANGED <<exitCode, checkIdx, cfgVars, report>>

NextVersion ==
    \/ ParseVersion
    \/ CompareVersions
    \/ CheckVersionUpdate

SpecVersion == InitVersion /\ [][NextVersion]_vars

-----------------------------------------------------------------------------
(* Claims about the version functions.                                     *)

ParseRan == probe.check = "parse_semantic_version"

AllDigits(text) == text # << >> /\ \A i \in 1..Len(text) : IsDigit(text[i])

\* the strings the claim calls versions: at most one leading v, then exactly
\* three segments between dots, each a non-negative integer
WellFormedVersion(text) ==
    LET body == IF text # << >> /\ Head(text) = "v" THEN Tail(text) ELSE text
        parts == Split(body, ".")
    IN  Len(parts) = 3 /\ \A i \in 1..3 : AllDigits(parts[i])

\* C12: parse_semantic_version returns a triple only for strings that, after
\* removing at most one leading v, are exactly three dot-separated
\* non-negative integers; every deviation (a second leading v, two or four
\* segments, an empty, signed or non-numeric segment) yields None.
C12_ParseOnlyWellFormed ==
    ParseRan => (probe.result # None <=> WellFormedVersion(probe.input))

\* C13: parsing the string rendered from a triple of non-negative integers,
\* with or without a leading v, returns that triple; on every string
\* parse_semantic_version returns a triple or None and never raises.
C13_ParseRoundTrip ==
    ParseRan =>
        /\ ~probe.raised
        /\ probe.result = None \/ probe.result \in Nat \X Nat \X Nat
        /\ \A v \in WideVersions :
              probe.input \in {Rendered(v), <<"v">> \o Rendered(v)} => probe.result = v

\* the string v10.0.2, rendered from (10, 0, 2), parsed back to it
C13_Witness ==
    /\ ParseRan
    /\ ~probe.raised
    /\ probe.input = <<"v">> \o Rendered(<<10, 0, 2>>)
    /\ probe.result = <<10, 0, 2>>

CompareRan == probe.check = "compare_versions"

\* C14: compare_versions returns -1, 0 or 1, agrees with the lexicographic
\* order of (major, minor, patch), is 0 exactly for equal tuples,
\* antisymmetric (compare(a,b) = -compare(b,a)) and transitive.
C14_CompareTotalOrder ==
    CompareRan =>
        LET a == probe.input[1]
            b == probe.input[2]
            r == probe.result
        IN  /\ r.ab \in {-1, 0, 1}
            /\ r.ab = 0 <=> a = b
            /\ r.ab = 0 - r.ba
            /\ (r.ab < 0 /\ r.bc < 0) => r.ac < 0
            /\ r.ab < 0 <=> \E i \in 1..3 : a[i] < b[i] /\ \A j \in 1..(i - 1) : a[j] = b[j]

\* 1.2.1 against 1.2.2 against 2.0.0: the chain a < b < c
C14_Witness ==
    /\ CompareRan
    /\ probe.input = <<<<1, 2, 1>>, <<1, 2, 2>>, <<2, 0, 0>>>>
    /\ probe.result = [ab |-> -1, ba |-> 1, bc |-> -1, ac |-> -1]

UpdateRan == probe.check = "check_version_update"

\* the fetch was made and returned a release tag
TagFetched ==
    /\ probe.input.disable_env # <<"1">>
    /\ probe.input.fetch.kind = "tag"

-----------------------------------------------------------------------------
(* Claim about the update check within a run of main().                    *)

WithoutUpdateNotice(store) ==
    SelectSeq(store, LAMBDA i : i.category # "Version Update")

SeverityExit(store) ==
    IF Holds(store, "CRITICAL") THEN 2 ELSE IF Holds(store, "HIGH") THEN 1 ELSE 0

\* C16: with DISABLE_VERSION_CHECK=1 no release is fetched and no issue is
\* appended; whatever the fetch gives (newer, equal, older, malformed, no
\* answer) the update check raises nothing, every later check is still
\* called, and the exit code is the one of the same run without the update
\* check, i.e. of the store without the update notice.
C16_UpdateCheckNeutral ==
    /\ probe.check = "check_version_update" => ~probe.raised
    /\ (probe.check = "check_version_update" /\ probe.input.disable_env = <<"1">>)
          => (probe.opened = {} /\ appended = << >>
              /\ WithoutUpdateNotice(issues) = issues)
    /\ pc = "exited" =>
          /\ probe.check = "check_version_update"
          /\ checkIdx = Len(RunOrder) + 1
          /\ exitCode = SeverityExit(WithoutUpdateNotice(issues))

\* a finished run in which the newer release was announced and a later
\* check found a HIGH issue: exit code 1, as without the announcement
C16_Witness ==
    /\ pc = "exited"
    /\ probe.input.fetch = [kind |-> "tag", tag_name |-> <<"v","1",".","3",".","0">>]
    /\ probe.input.disable_env = Absent
    /\ Len(issues) = 2
    /\ issues[1] = Issue("INFO", "Version Update")
    /\ issues[2].severity = "HIGH"
    /\ exitCode = 1

-----------------------------------------------------------------------------
(* The report step of main() on a filled store: EXPORT_FORMAT selects one  *)
(* of the four exporters.                                                   *)

MaxStored == 3

\* what add_issue() was called with: category, description and details,
\* and the severities such a call is made with
ExportKinds ==
    { [category |-> "Security", description |-> <<"a","<","b">>, details |-> << >>,
       severities |-> {"CRITICAL", "HIGH", "MEDIUM"}],
      [category |-> "Storage", description |-> <<"q", "\"", "\\", "&">>, details |-> <<"x",">","y">>,
       severities |-> {"CRITICAL", "HIGH", "LOW"}],
      [category |-> "iSCSI", description |-> <<"o","k">>, details |-> <<"e", Bell>>,
       severities |-> {"MEDIUM", "INFO"}] }

StoredIssues ==
    UNION { { [severity |-> s, category |-> k.category, description |-> k.description,
               details |-> k.details] : s \in k.severities } : k \in ExportKinds }

RECURSIVE ExportStores(_)
ExportStores(n) ==
    IF n = 0 THEN {<< >>}
    ELSE ExportStores(n - 1)
         \cup {Append(store, issue) : store \in {t \in ExportStores(n - 1) : Len(t) = n - 1},
                                      issue \in StoredIssues}

\* values of EXPORT_FORMAT in the environment
ExportFormats == {Absent, <<"j","s","o","n">>, <<"x","m","l">>, <<"X","M","L">>, <<"t","e","x","t">>, <<"m","a","r","k","d","o","w","n">>, <<"y","a","m","l">>}

\* os.getenv("EXPORT_FORMAT", "markdown").lower()
export_format(value) == Lower(IF value = Absent THEN <<"m","a","r","k","d","o","w","n">> ELSE value)

InitExport ==
    /\ pc = "export"
    /\ issues \in ExportStores(MaxStored)
    /\ exitCode = -1
    /\ checkIdx = 1
    /\ IdleResolver
    /\ IdleChecks

\* the slip of naming every report file .md
report_file_AlwaysMd(format) ==
    [dir |-> "OUTPUT_DIR", name |-> "health_report_HOSTNAME", ext |-> ".md"]

\* os.path.join(OUTPUT_DIR, f"health_report_{HOSTNAME}.<ext>") of the branch
\* taken for an export format
report_file(format) ==
    [dir |-> "OUTPUT_DIR", name |-> "health_report_HOSTNAME",
     ext |-> IF format = <<"j","s","o","n">> THEN ".json"
             ELSE IF format = <<"x","m","l">> THEN ".xml"
             ELSE IF format = <<"t","e","x","t">> THEN ".txt"
             ELSE ".md"]

\* the branch taken renders `content`; `with open(report_file, "w")` then
\* writes it, or raises when the file cannot be opened; `files` are the
\* files the step wrote
Exported(name, value, content) ==
    /\ \E writable \in BOOLEAN :
          IF writable
          THEN /\ probe' = [check |-> name, input |-> value, result |-> content,
                            files |-> {report_file(export_format(value))},
                            raised |-> FALSE, opened |-> FALSE]
               /\ report' = ReportFile("plain", TRUE, "complete", FALSE, "none", "none", "none")
               /\ pc' = "written"
          ELSE /\ probe' = [check |-> name, input |-> value, result |-> content,
                            files |-> {}, raised |-> TRUE, opened |-> FALSE]
               /\ report' = report
               /\ pc' = "raised"
    /\ UNCHANGED <<issues, appended, exitCode, checkIdx, cfgVars>>

ExportJson ==
    /\ pc = "export"
    /\ \E value \in ExportFormats :
          /\ export_format(value) = <<"j","s","o","n">>
          /\ Exported("export_json", value, export_json(issues))

ExportXml ==
    /\ pc = "export"
    /\ \E value \in ExportFormats :
          /\ export_format(value) = <<"x","m","l">>
          /\ Exported("export_xml", value, export_xml(issues))

ExportText ==
    /\ pc = "export"
    /\ \E value \in ExportFormats :
          /\ export_format(value) = <<"t","e","x","t">>
          /\ Exported("export_text", value, export_text(issues))

ExportMarkdown ==
    /\ pc = "export"
    /\ \E value \in ExportFormats :
          /\ export_format(value) \notin {<<"j","s","o","n">>, <<"x","m","l">>, <<"t","e","x","t">>}
          /\ Exported("export_markdown", value, export_markdown(issues))

NextExport ==
    \/ ExportJson
    \/ ExportXml
    \/ ExportText
    \/ ExportMarkdown

SpecExport == InitExport /\ [][NextExport]_vars

-----------------------------------------------------------------------------
(* Claims about the exporters.                                              *)

\* a direct count by severity over a sequence of entries
CountOf(entries, s) == Cardinality({i \in 1..Len(entries) : entries[i].severity = s})

Rendered4 == {"export_markdown", "export_text", "export_json", "export_xml"}

LinesOf(content, kind) == SelectSeq(content, LAMBDA line : line.kind = kind)

\* the summary of a parsed JSON or XML report names s exactly once, with
\* count n
EntryFor(summary, s, n) ==
    /\ Cardinality({i \in 1..Len(summary) : summary[i].level = s}) = 1
    /\ \A i \in 1..Len(summary) : summary[i].level = s => summary[i].count = n

\* the summary of a JSON or XML document names s exactly once, and the
\* count written there reads n
WrittenFor(summary, s, n) ==
    /\ Cardinality({i \in 1..Len(summary) : summary[i].level = s}) = 1
    /\ \A i \in 1..Len(summary) :
          summary[i].level = s => IntValue(summary[i].count) = n

NoEntryFor(summary, s) == \A i \in 1..Len(summary) : summary[i].level # s

\* C17: for every store, the empty one included, and each of the five
\* severities, the count an exporter reports is the number of stored issues
\* of that severity and the total it reports is the length of the store:
\* Markdown and text list all five severities, with 0 for an absent one;
\* the JSON (and XML) summary has an entry exactly for the severities that
\* occur, so that the empty store gives an empty summary and no issues.
C17_ExportCounts ==
    /\ probe.check \in {"export_markdown", "export_text"} =>
         LET summary == LinesOf(probe.result, "summary")
             total == LinesOf(probe.result, "total")
             listed == LinesOf(probe.result, "issue")
         IN  /\ Len(summary) = 5
             /\ \A s \in Severities :
                   \E i \in 1..5 :
                      /\ summary[i].severity = s
                      /\ IntValue(summary[i].text) = CountOf(issues, s)
             /\ Len(total) = 1
             /\ IntValue(total[1].text) = Len(issues)
             /\ \A s \in Severities : CountOf(listed, s) = CountOf(issues, s)
    /\ probe.check \in {"export_json", "export_xml"} =>
         /\ \A s \in Severities :
               /\ CountOf(probe.result.issues, s) = CountOf(issues, s)
               /\ IF CountOf(issues, s) > 0
                  THEN WrittenFor(probe.result.summary, s, CountOf(issues, s))
                  ELSE NoEntryFor(probe.result.summary, s)
         /\ Len(probe.result.issues) = Len(issues)
         /\ issues = << >> =>
               probe.result.summary = << >> /\ probe.result.issues = << >>

\* a Markdown report of a store with two HIGH issues and one INFO issue
C17_Witness ==
    /\ probe.check = "export_markdown"
    /\ Len(issues) = 3
    /\ CountOf(issues, "HIGH") = 2
    /\ CountOf(issues, "INFO") = 1
    /\ \E i \in 1..Len(probe.result) :
          probe.result[i] = Line("summary", "CRITICAL", <<"0">>)
    /\ \E i \in 1..Len(probe.result) :
          probe.result[i] = Line("summary", "HIGH", <<"2">>)

\* the issue entries of a Markdown or text report in the order of the
\* report, each with the category heading it stands under
RECURSIVE EntriesOfLines(_, _)
EntriesOfLines(content, heading) ==
    IF content = << >> THEN << >>
    ELSE IF Head(content).kind = "category"
    THEN EntriesOfLines(Tail(content), Head(content).text)
    ELSE IF Head(content).kind = "issue"
    THEN <<[severity |-> Head(content).severity, category |-> heading,
            description |-> Head(content).text]>>
         \o EntriesOfLines(Tail(content), heading)
    ELSE EntriesOfLines(Tail(content), heading)

\* the issue entries of a JSON or XML report, or of the store, in the order
\* of the document, each with the category it carries
EntriesOfDocument(entries) ==
    [i \in 1..Len(entries) |->
        [severity |-> entries[i].severity,
         category |-> Spelling[entries[i].category],
         description |-> entries[i].description]]

\* the descriptions of a document, read back as the format writes them
Unescaped(check, entries) ==
    [i \in 1..Len(entries) |->
        [entries[i] EXCEPT !.description =
            IF check = "export_json" THEN JsonUnescape(@) ELSE XmlUnescape(@)]]

\* the issue entries of the report just rendered
ReportEntries ==
    CASE probe.check \in {"export_markdown", "export_text"} -> EntriesOfLines(probe.result, << >>)
      [] probe.check \in {"export_json", "export_xml"} ->
            EntriesOfDocument(Unescaped(probe.check, probe.result.issues))

\* the same entries taken from the store, in the order of appending
StoreEntries == EntriesOfDocument(issues)

InCategory(entries, c) == SelectSeq(entries, LAMBDA e : e.category = c)

\* same-category issues keep the order in which they were appended
KeepsOrderWithinCategory(entries) ==
    LET stored == StoreEntries
    IN  \A c \in {stored[i].category : i \in 1..Len(stored)} :
            InCategory(entries, c) = InCategory(stored, c)

\* the categories appear in sorted-name order
CategoriesSorted(entries) ==
    \A i \in 1..Len(entries) : \A j \in 1..Len(entries) :
        i < j => ~TextLess(entries[j].category, entries[i].category)

\* C18 as stated: in each of the four rendered reports the categories
\* appear in sorted-name order and two issues of one category appear in
\* the order in which they were appended.
C18_AllFourGroupSorted ==
    probe.check \in Rendered4 =>
        LET entries == ReportEntries
        IN  /\ CategoriesSorted(entries)
            /\ KeepsOrderWithinCategory(entries)

\* C18, amended: in each of the four reports two issues of one category
\* appear in the order in which they were appended, whatever their
\* severity; the Markdown and text reports group the issues by category,
\* the categories in sorted-name order, while the JSON and XML reports
\* list every issue in the order of the store, ungrouped.
C18_GroupingPerFormat ==
    probe.check \in Rendered4 =>
        LET entries == ReportEntries
        IN  /\ KeepsOrderWithinCategory(entries)
            /\ Len(entries) = Len(issues)
            /\ probe.check \in {"export_markdown", "export_text"} =>
                  LET headings == LinesOf(probe.result, "category")
                  IN  /\ CategoriesSorted(entries)
                      /\ \A i \in 1..Len(headings) : \A j \in 1..Len(headings) :
                            i < j => TextLess(headings[i].text, headings[j].text)
            /\ probe.check \in {"export_json", "export_xml"} => entries = StoreEntries

\* a Markdown report of a store holding an iSCSI issue, then a HIGH and a
\* CRITICAL Storage issue: Storage comes first, HIGH before CRITICAL
C18_Witness ==
    /\ probe.check = "export_markdown"
    /\ Len(issues) = 3
    /\ issues[1].category = "iSCSI"
    /\ issues[2].category = "Storage" /\ issues[2].severity = "HIGH"
    /\ issues[3].category = "Storage" /\ issues[3].severity = "CRITICAL"
    /\ ReportEntries = <<StoreEntries[2], StoreEntries[3], StoreEntries[1]>>

\* C19: re-parsing the JSON output (top-level fields hostname, timestamp,
\* os_info, summary, issues) or the XML output (root health_check_report
\* with children metadata, summary, issues) and counting its issue entries
\* by severity gives the per-severity counts and the total of the store,
\* and these agree with the summary written in the same output.
C19_ReparseReproducesCounts ==
    /\ probe.check = "export_json" =>
         LET data == json_load(probe.result)
         IN  /\ \A field \in {"hostname", "timestamp", "os_info", "summary", "issues"} :
                   \E i \in 1..Len(data.keys) : data.keys[i] = field
             /\ Len(data.issues) = Len(issues)
             /\ \A s \in Severities :
                   /\ CountOf(data.issues, s) = CountOf(issues, s)
                   /\ IF CountOf(data.issues, s) > 0
                      THEN EntryFor(data.summary, s, CountOf(data.issues, s))
                      ELSE NoEntryFor(data.summary, s)
             /\ \A i \in 1..Len(issues) :
                   data.issues[i].description = issues[i].description
    /\ probe.check = "export_xml" =>
         LET root == xml_parse(probe.result)
         IN  /\ ~root.raised
             /\ root.root = "health_check_report"
             /\ root.children = <<"metadata", "summary", "issues">>
             /\ Len(root.issues) = Len(issues)
             /\ \A s \in Severities :
                   /\ CountOf(root.issues, s) = CountOf(issues, s)
                   /\ IF CountOf(root.issues, s) > 0
                      THEN EntryFor(root.summary, s, CountOf(root.issues, s))
                      ELSE NoEntryFor(root.summary, s)
             /\ \A i \in 1..Len(issues) :
                   root.issues[i].description = issues[i].description

-----------------------------------------------------------------------------
(* Claims about the encrypt step (specification Spec).                      *)

\* C20: when encryption is enabled and gpg succeeds, the encrypted sibling
\* exists, the plaintext is gone and the encrypted path is what the later
\* steps use; when gpg is missing or the operation fails at any point, the
\* removal of the plaintext included, the plaintext is untouched, the
\* original path is kept, and the run goes on to delivery and ends with its
\* severity-based exit code.
C20_EncryptOrFallBack ==
    /\ report.encrypt = "encrypted" =>
          /\ report.encrypted /\ ~report.plaintext /\ report.file = "gpg"
    /\ report.encrypt \in {"no_gpg", "failed", "remove_failed"} =>
          /\ report.plaintext /\ report.file = "plain"
          /\ pc \in {"email", "summary", "exited", "interrupted"}
          /\ pc = "exited" => exitCode = SeverityExit(issues)

-----------------------------------------------------------------------------
(* Claims about the deliver step (specification Spec).                      *)

\* the files as the encrypt step left them, by its outcome
FilesAsEncrypted ==
    IF report.encrypt = "encrypted"
    THEN report.file = "gpg" /\ report.encrypted /\ ~report.plaintext
    ELSE report.file = "plain" /\ report.plaintext /\ report.written = "complete"

\* the e-mail step changes neither the store nor the report files
EmailLeavesStoreAndFiles ==
    pc = "email" =>
        /\ issues' = issues
        /\ report'.file = report.file
        /\ report'.plaintext = report.plaintext
        /\ report'.written = report.written
        /\ report'.encrypted = report.encrypted

\* C21: every failure while composing or transmitting the mail (refused
\* connection, TLS or login failure, unreadable attachment) is caught
\* inside send_email_report: the run goes on, the store and the report
\* file are unchanged, and the exit code is the one the same store gives
\* with e-mail disabled.
C21_MailFailureCaught ==
    /\ [](report.mail \in MailFailures =>
            /\ pc \in {"summary", "exited", "interrupted"}
            /\ FilesAsEncrypted
            /\ pc = "exited" => exitCode = SeverityExit(issues))
    /\ [][EmailLeavesStoreAndFiles]_vars

\* a finished run with a CRITICAL issue whose mail was refused: exit code 2
C21_Witness ==
    /\ pc = "exited"
    /\ report.mail = "refused"
    /\ Holds(issues, "CRITICAL")
    /\ exitCode = 2

\* C22: the mail is composed only after the encrypt step has finished; a
\* message that goes out carries the encrypted file when encryption
\* succeeded, and then the plaintext is neither attached nor on disk, and
\* the plaintext file when encryption failed, was unavailable or was
\* skipped.
C22_DeliveryFollowsEncryption ==
    /\ report.mail # "none" => report.encrypt \in {"skipped", "no_gpg", "failed", "encrypted"}
    /\ report.attached # "none" => report.mail = "sent"
    /\ report.mail = "sent" =>
          IF report.encrypt = "encrypted"
          THEN report.attached = "gpg" /\ report.encrypted /\ ~report.plaintext
          ELSE report.attached = "plain" /\ report.plaintext

\* a run in which gpg succeeded and the mail went out with the .gpg file
C22_Witness ==
    /\ pc = "summary"
    /\ report.encrypt = "encrypted"
    /\ report.mail = "sent"
    /\ report.attached = "gpg"
    /\ ~report.plaintext

-----------------------------------------------------------------------------
(* Claims about the report file (specification SpecExport).                *)

ExtensionOf ==
    [check \in Rendered4 |->
        IF check = "export_json" THEN ".json"
        ELSE IF check = "export_xml" THEN ".xml"
        ELSE IF check = "export_text" THEN ".txt"
        ELSE ".md"]

-----------------------------------------------------------------------------
(* Claims about the end of the process (specification Spec).               *)

\* C24: an interruption ends the process with 130, whatever step it arrives
\* in; any other exception that leaves main() ends it with 1; the sys.exit
\* at the end of main() keeps its severity-based code, and no other ending
\* has the code 130.
C24_InterruptAndCrashCodes ==
    /\ pc \in RunningSteps \cup {"raised"} => exitCode = -1
    /\ pc = "interrupted" => exitCode = 130
    /\ pc = "aborted" => exitCode = 1
    /\ pc = "exited" => exitCode = SeverityExit(issues) /\ exitCode \in {0, 1, 2}
    /\ exitCode = 130 => pc = "interrupted"

\* interrupted during the memory check with a CRITICAL issue in the store:
\* 130, not 2
C24_Witness ==
    /\ pc = "interrupted"
    /\ exitCode = 130
    /\ checkIdx = 11
    /\ Holds(issues, "CRITICAL")

\* C25 as stated: no failure inside a check keeps the later checks from
\* running: an exception never leaves main() before the last check has been
\* called, and a run that is not interrupted ends with every check called
\* and the report written.
C25_ChecksSurviveFailure ==
    /\ pc \in {"raised", "aborted"} => checkIdx = Len(RunOrder) + 1
    /\ pc = "exited" => checkIdx = Len(RunOrder) + 1 /\ report.written = "complete"

\* C29 as stated: when an interrupted process has exited, the report file
\* does not exist or holds the complete report.
C29_ReportWholeOrAbsent ==
    pc = "interrupted" => report.written \in {"none", "complete"}

-----------------------------------------------------------------------------
(* Claims about the store and the order of the checks (specification Spec). *)

StoreGrowsByOne ==
    \/ issues' = issues
    \/ /\ pc \in {"version_update", "checks"}
       /\ Len(issues') = Len(issues) + 1
       /\ SubSeq(issues', 1, Len(issues)) = issues

\* C27: the store only grows, by one issue at its end, and only while the
\* update check and the checks run; the report, encrypt, deliver and
\* summary steps leave it as it is, so every earlier store is a prefix of
\* every later one.
C27_StoreAppendOnly == [][StoreGrowsByOne]_vars

\* two issues in the store at the end of a run
C27_Witness ==
    /\ pc = "exited"
    /\ issues = <<Issue("HIGH", "Security"), Issue("LOW", "iSCSI")>>

Domains == <<"Version Update", "Security", "System Health", "Storage", "Updates", "Networking", "iSCSI">>

DomainRank ==
    [category \in {Domains[d] : d \in 1..Len(Domains)} |->
        CHOOSE i \in 1..Len(Domains) : Domains[i] = category]

\* the calls of main() go through the domains in their order, and leave
\* none out
CallsFollowDomains ==
    /\ \A i \in 1..(Len(RunOrder) - 1) :
          DomainRank[RunOrder[i].category] <= DomainRank[RunOrder[i + 1].category]
    /\ {RunOrder[i].category : i \in 1..Len(RunOrder)} = {Domains[d] : d \in 2..Len(Domains)}

\* C28: the checks are called one at a time in the fixed order Security,
\* System Health, Storage, Updates, Networking, iSCSI, after the detection
\* of the OS; the report is rendered only after the last iSCSI check; the
\* issues in the store follow that order of domains.
C28_FixedDomainOrder ==
    /\ CallsFollowDomains
    /\ pc \in {"detect_os", "version_update"} => checkIdx = 1
    /\ pc = "detect_os" => issues = << >>
    /\ report # NoReport => checkIdx = Len(RunOrder) + 1
    /\ pc \in {"report", "encrypt", "email", "summary", "exited"} => checkIdx = Len(RunOrder) + 1
    /\ \A i \in 1..Len(issues) :
          /\ i < Len(issues) =>
                DomainRank[issues[i].category] <= DomainRank[issues[i + 1].category]
          /\ issues[i].category # "Version Update" =>
                /\ checkIdx > 1
                /\ DomainRank[issues[i].category] <= DomainRank[RunOrder[checkIdx - 1].category]

\* the report step reached with a Security issue ahead of an iSCSI issue
C28_Witness ==
    /\ pc = "report"
    /\ checkIdx = Len(RunOrder) + 1
    /\ issues = <<Issue("MEDIUM", "Security"), Issue("MEDIUM", "iSCSI")>>

-----------------------------------------------------------------------------
(* Claim about the setting VERSION_CHECK_ENABLED (specification            *)
(* SpecVersion).                                                           *)

\* C30 as stated: with VERSION_CHECK_ENABLED False, check_version_update
\* fetches no release and appends no issue, as with DISABLE_VERSION_CHECK=1.
C30_SettingDisablesCheck ==
    (UpdateRan /\ ~probe.input.enabled) =>
        /\ probe.opened = {}
        /\ appended = << >>

-----------------------------------------------------------------------------
(* Claim about failing probes (specification SpecChecks).                  *)

\* every command the check ran came back from run_command with a failure
ProbeFailed ==
    \/ /\ probe.check \in {"check_filesystem_usage", "check_memory_usage", "check_default_gateway"}
       /\ probe.input.rc # 0
    \/ /\ probe.check = "check_open_ports"
       /\ probe.input.ss_rc # 0
       /\ probe.input.netstat_rc # 0
    \/ /\ probe.check = "check_dns_resolution"
       /\ \A i \in 1..Len(probe.input.lookups) : probe.input.lookups[i].rc # 0

\* C26 as stated: when the probe of a check fails, nothing is raised, the
\* check appends at most one issue, of severity LOW or MEDIUM, and the exit
\* code of the store is the one it had before the check.
C26_ProbeFailureIsAdvisory ==
    ProbeFailed =>
        /\ ~probe.raised
        /\ Len(appended) <= 1
        /\ \A i \in 1..Len(appended) : appended[i].severity \in {"LOW", "MEDIUM"}
        /\ ExitCode(issues) = ExitCode(SubSeq(issues, 1, Len(issues) - Len(appended)))

=============================================================================
